---- MODULE Spec2Model ----
(***************************************************************************)
(* The benchmark execution engine of ileri-llm-tokens: the App component   *)
(* (src/App.tsx, first App in the file), the asyncPool runner              *)
(* (src/App.tsx:887-927) and the provider adapters                         *)
(* (src/services/llmProviders.ts:96-380).                                  *)
(*                                                                         *)
(* JavaScript runs every handler to completion.  One step of this model    *)
(* is either a macrotask (a click, a network event, a timer) or one        *)
(* continuation taken from the FIFO microtask queue `micro`; a macrotask   *)
(* is taken only when the microtask queue is empty.                        *)
(***************************************************************************)
EXTENDS Integers, Sequences, FiniteSets, TLC

(* ------------------------------ bounds --------------------------------- *)
\* the number of runs started (abortControllerRef is replaced once per run)
MaxRuns == 2

\* the rows of a loaded file and the values of the "first N rows" input
MaxRows == 2

MaxFirstN == 3

(* --------------------------- JavaScript values ------------------------- *)
\* undefined / null: a missing JSONL key or a JSON null cell
Undefined == "<undefined>"

Falsy(s) == s = Undefined \/ s = ""

\* String.prototype.includes
Includes(s, w) ==
    \E i \in 1..(Len(s) - Len(w) + 1) : SubSeq(s, i, i + Len(w) - 1) = w

RECURSIVE Flatten(_)
Flatten(ss) == IF ss = <<>> THEN <<>> ELSE Head(ss) \o Flatten(Tail(ss))

\* Array.prototype.filter: the elements of s that are in keep, in order
RECURSIVE Filter(_, _)
Filter(s, keep) ==
    IF s = <<>> THEN <<>>
    ELSE IF Head(s) \in keep THEN <<Head(s)>> \o Filter(Tail(s), keep)
    ELSE Filter(Tail(s), keep)

Range(s) == {s[i] : i \in 1..Len(s)}

(* ------------------------------- types.ts ------------------------------ *)
\* enum AppState: the declaration order is the numeric order
AppStates == <<"Initial", "MappingColumns", "ReadyToRun", "Running", "ShowingResults">>

AppStateRank(a) == CHOOSE i \in 1..Len(AppStates) : AppStates[i] = a

\* Object.keys(providerSettings), in insertion order
ProviderIds == <<"openai", "gemini", "anthropic", "grok">>

Variants == <<"en", "tr", "tr_nodia">>

(* ------------------------------ utils.ts ------------------------------- *)
\* The texts of the model are "abc", "E" (standing for a precomposed accented
\* letter, one code unit) and "e~" (its decomposition: e and a combining mark).
\* text.normalize('NFC')
toNFC(s) == IF Falsy(s) THEN s ELSE IF s = "e~" THEN "E" ELSE s

\* normalize('NFD'), the combining marks removed, normalize('NFC')
stripDiacriticsTr(s) ==
    LET NFDForm == IF s = "E" THEN "e~" ELSE s
        StripMarks == IF NFDForm = "e~" THEN "e" ELSE NFDForm
    IN  IF Falsy(s) THEN s ELSE toNFC(StripMarks)

(* --------------------------- uploaded files ---------------------------- *)
RequiredHeaders == {"id", "en", "tr"}
AllHeaders == {"id", "en", "tr", "tr_nodia"}

GoodRow == [id |-> "1", en |-> "abc", tr |-> "e~"]
\* a JSONL line whose "tr" value is null
NullTrRow == [id |-> "2", en |-> "abc", tr |-> Undefined, tr_nodia |-> "e"]

\* what FileUpload hands to onFileLoaded: the parsed rows and the keys of the
\* first.  A file without a tr_nodia column, and one with it.
Files ==
    {[headers |-> RequiredHeaders, rows |-> <<GoodRow>>],
     [headers |-> AllHeaders, rows |-> <<NullTrRow>>]}

NoFile == [headers |-> {}, rows |-> <<>>]

\* row[column] for a column name that may be unmapped
Cell(row, col) == IF col \in DOMAIN row THEN row[col] ELSE Undefined

(* -------------------------- provider settings -------------------------- *)
Setting(enabled, apiKey, models) ==
    [enabled |-> enabled, apiKey |-> apiKey, models |-> models, remember |-> FALSE]

\* useState default of providerSettings: openai and gemini enabled, no key
DefaultModels ==
    [openai |-> <<"gpt-5", "gpt-5-nano">>,
     gemini |-> <<"gemini-2.5-pro", "gemini-2.5-flash">>,
     anthropic |-> <<"claude-3-haiku-20240307", "claude-4-opus">>,
     grok |-> <<"grok-4-latest", "grok-4-fast-non-reasoning">>]

DefaultProviderSettings ==
    [q \in Range(ProviderIds) |->
        Setting(q \in {"openai", "gemini"}, "", DefaultModels[q])]

\* The settings the cards are edited to between runs.
\* Only provider p enabled, with a key, its second model removed:
Only(p) ==
    [q \in Range(ProviderIds) |->
        Setting(q = p, IF q = p THEN "sk-key" ELSE "", <<Head(DefaultModels[q])>>)]

NoneEnabled ==
    [q \in Range(ProviderIds) |-> Setting(FALSE, "", DefaultModels[q])]

\* openai enabled with a key, its models removed (handleAddModel adds no
\* blank model, so a list without a usable model is the empty list)
NoModels ==
    [q \in Range(ProviderIds) |->
        Setting(q = "openai", IF q = "openai" THEN "sk-key" ELSE "", <<>>)]

\* the configurations a run attempt is refused with
ConfigErrors == {DefaultProviderSettings, NoneEnabled, NoModels}

ProviderConfigs == {Only(p) : p \in Range(ProviderIds)} \cup ConfigErrors

\* settings of the two range inputs of RunControls: one task at a time or the
\* default of two, no pacing or the default of 100 ms
\* the useState default of appSettings with the two range inputs moved
AppSettingsChoices ==
    [concurrency : {1, 2}, delay : {0, 100}, runFirstN : {0},
     regenerateTrNodia : {FALSE}]

(* ------------------------- llmProviders.ts ----------------------------- *)
ProviderName(p) ==
    CASE p = "openai" -> "OpenAI"
      [] p = "gemini" -> "Google Gemini"
      [] p = "anthropic" -> "Anthropic Claude"
      [] p = "grok" -> "xAI Grok"

\* the adapters that hand `signal` to fetch (openai line 152, grok line 336);
\* gemini and anthropic take the parameter and never read it
PassesSignal(p) == p \in {"openai", "grok"}

\* A JavaScript number: a finite count, or NaN, Infinity or undefined where a
\* count is expected.
Num(n) == [kind |-> "number", v |-> n]

NaN == [kind |-> "NaN", v |-> 0]

Infinity == [kind |-> "Infinity", v |-> 0]

NoNumber == [kind |-> "undefined", v |-> 0]

\* Number.isFinite
IsFinite(x) == x.kind = "number"

\* an error result that would carry no error text
ERROR_RESULTBare(error) ==
    [prompt_tokens |-> Num(0), completion_tokens |-> Num(0),
     total_tokens |-> Num(0), mode |-> "error", cost |-> 0, responseTime |-> 0,
     error |-> Undefined]

\* { ...ERROR_RESULT, error }
ERROR_RESULT(error) ==
    [prompt_tokens |-> Num(0), completion_tokens |-> Num(0),
     total_tokens |-> Num(0), mode |-> "error", cost |-> 0, responseTime |-> 0,
     error |-> error]

\* what a rejected fetch or body read throws
AbortError == [name |-> "AbortError", message |-> "The user aborted a request."]

TransportErrors == {[name |-> "TypeError", message |-> "Failed to fetch"]}

JsError(message) == [name |-> "Error", message |-> message]

\* a parsed error body is <<payload>>, a body that is no JSON is <<>>
ErrorBodies ==
    {<<[error |-> [message |-> "Invalid API key", type |-> Undefined,
                   code |-> Undefined]]>>}

\* JSON.stringify of a payload: an object of string properties (those that
\* are undefined are left out) whose property `error` is an object
RECURSIVE JSONStringify(_)
JSONStringify(value) ==
    LET keys == Filter(<<"error", "message", "type", "code", "detail">>,
                       {k \in DOMAIN value : k = "error" \/ value[k] # Undefined})
        Member(k) == "\"" \o k \o "\":"
                     \o (IF k = "error" THEN JSONStringify(value[k])
                         ELSE "\"" \o value[k] \o "\"")
        RECURSIVE Join(_)
        Join(ks) == IF ks = <<>> THEN ""
                    ELSE Member(Head(ks))
                         \o (IF Tail(ks) = <<>> THEN "" ELSE ",")
                         \o Join(Tail(ks))
    IN  "{" \o Join(keys) \o "}"

\* lines 65-94, for a payload that is an object
getAPIErrorMessage(errorData) ==
    IF errorData = <<>> THEN "Unknown error"
    ELSE LET data == errorData[1]
             Has(rec, k) == k \in DOMAIN rec /\ ~Falsy(rec[k])
         IN  IF "error" \in DOMAIN data
             THEN LET e == data.error
                  IN  IF Has(e, "message")
                      THEN e.message
                           \o (IF Has(e, "type") THEN " (Type: " \o e.type \o ")" ELSE "")
                           \o (IF Has(e, "code") THEN " (Code: " \o e.code \o ")" ELSE "")
                      ELSE JSONStringify(e)
             ELSE IF Has(data, "message") THEN data.message
             ELSE JSONStringify(data)

StatusLine == "500 Internal Server Error"

\* catch of openai.countTokens and of grok.countTokens
FetchCatch(error) ==
    ERROR_RESULT(IF error.name = "AbortError" THEN "Request cancelled"
                 ELSE IF Includes(error.message, "fetch") THEN "Network/CORS error."
                 ELSE error.message)

\* catch of gemini.countTokens
GeminiCatch(error) == ERROR_RESULT(error.message)

\* the non-ok branch of openai (lines 155-161) and of grok (lines 339-348): in
\* openai a body that fails to parse (or whose read is aborted) leaves
\* errorData undefined, in grok it throws the status line
NotOkResult(p, errorData) ==
    LET msg == getAPIErrorMessage(errorData)
    IN  IF p = "openai"
        THEN FetchCatch(JsError("OpenAI API Error: "
                                \o (IF Falsy(msg) THEN StatusLine ELSE msg)))
        ELSE IF errorData = <<>>
        THEN FetchCatch(JsError("Grok API Error: " \o StatusLine))
        ELSE FetchCatch(JsError("Grok API Error: " \o msg))

\* the result of a call in phase st whose pending fetch or body read rejects
\* with `error`
RejectedIn(p, st, error) ==
    IF st = "bodyErr" THEN NotOkResult(p, <<>>) ELSE FetchCatch(error)

(* --------------------- llmProviders.ts: pricing ------------------------- *)
\* PRICING_DATA in insertion order; the rates are in cents per million tokens
PRICING_DATA ==
    <<[key |-> "gpt-5.1", input |-> 125, output |-> 1000],
      [key |-> "gpt-5-mini", input |-> 25, output |-> 200],
      [key |-> "gpt-5-nano", input |-> 5, output |-> 20],
      [key |-> "gpt-5", input |-> 125, output |-> 1000],
      [key |-> "gemini-2.5-pro", input |-> 125, output |-> 1000],
      [key |-> "gemini-2.5-flash", input |-> 30, output |-> 250],
      [key |-> "claude-3-haiku-20240307", input |-> 25, output |-> 125],
      [key |-> "claude-4-opus", input |-> 1500, output |-> 7500],
      [key |-> "grok-4", input |-> 300, output |-> 1500],
      [key |-> "grok-4-latest", input |-> 300, output |-> 1500],
      [key |-> "grok-4-fast-non-reasoning", input |-> 20, output |-> 50]>>

\* PRICING_DATA[key]
PricingOf(key) == CHOOSE e \in Range(PRICING_DATA) : e.key = key

\* String.prototype.startsWith
StartsWith(s, prefix) ==
    Len(prefix) <= Len(s) /\ SubSeq(s, 1, Len(prefix)) = prefix

\* keys.find(key => model.startsWith(key)): the first match, or undefined
RECURSIVE FindPrefix(_, _)
FindPrefix(keys, model) ==
    IF keys = <<>> THEN Undefined
    ELSE IF StartsWith(model, Head(keys)) THEN Head(keys)
    ELSE FindPrefix(Tail(keys), model)

\* a key order that would be the table's own
sortedKeysUnsorted == [i \in 1..Len(PRICING_DATA) |-> PRICING_DATA[i].key]

\* Object.keys(PRICING_DATA).sort((a, b) => b.length - a.length): the sort is
\* stable, longest first
sortedKeys ==
    LET RECURSIVE InsertByLength(_, _), SortByLength(_)
        InsertByLength(sorted, key) ==
            IF sorted = <<>> THEN <<key>>
            ELSE IF Len(Head(sorted)) >= Len(key)
            THEN <<Head(sorted)>> \o InsertByLength(Tail(sorted), key)
            ELSE <<key>> \o sorted
        SortByLength(keys) ==
            IF keys = <<>> THEN <<>>
            ELSE InsertByLength(SortByLength(SubSeq(keys, 1, Len(keys) - 1)),
                                keys[Len(keys)])
    IN  SortByLength([i \in 1..Len(PRICING_DATA) |-> PRICING_DATA[i].key])

\* a cost that would leave the completion tokens out
calculateCostInputOnly(model, prompt_tokens, completion_tokens) ==
    LET priceKey == FindPrefix(sortedKeys, model)
    IN  IF Falsy(priceKey) THEN 0
        ELSE (IF IsFinite(prompt_tokens) THEN prompt_tokens.v ELSE 0)
                 * PricingOf(priceKey).input

\* The cost in units of 10^-8 USD: tokens times cents per million tokens.
calculateCost(model, prompt_tokens, completion_tokens) ==
    LET priceKey == FindPrefix(sortedKeys, model)
    IN  IF Falsy(priceKey) THEN 0
        ELSE LET pricing == PricingOf(priceKey)
                 p_tokens == IF IsFinite(prompt_tokens) THEN prompt_tokens.v ELSE 0
                 c_tokens == IF IsFinite(completion_tokens)
                             THEN completion_tokens.v ELSE 0
             IN  p_tokens * pricing.input + c_tokens * pricing.output

\* The operators /, * and + of calculateCost and of the sums over its results,
\* in IEEE 754 binary64 on non-negative finite numbers.  A number is [m, e]:
\* the 53 bits of the significand, lowest bit first, and the exponent of the
\* lowest bit; zero has m = <<>>.  "/" takes two integers (a token count and
\* 1_000_000, or the hundredths of a rate and 100: the literal 1.25 is the
\* binary64 number 125 / 100), "*" and "+" take two numbers.
Float64(op, x, y) ==
    LET Zeros(n) == [i \in 1..n |-> 0]
        Top(b) == IF \E i \in DOMAIN b : b[i] = 1
                  THEN CHOOSE i \in DOMAIN b : b[i] = 1 /\ \A j \in DOMAIN b : b[j] = 1 => j <= i
                  ELSE 0
        At(b, i) == IF i \in DOMAIN b THEN b[i] ELSE 0
        \* the sum of two naturals, with the carry into each bit
        AddBits(a, b) ==
            LET n == (IF Len(a) > Len(b) THEN Len(a) ELSE Len(b)) + 1
                Carry(i) == \E j \in 1..(i - 1) :
                                /\ At(a, j) + At(b, j) = 2
                                /\ \A k \in (j + 1)..(i - 1) : At(a, k) + At(b, k) >= 1
            IN  IF a = <<>> THEN b
                ELSE IF b = <<>> THEN a
                ELSE [i \in 1..n |->
                         (At(a, i) + At(b, i) + IF Carry(i) THEN 1 ELSE 0) % 2]
        \* round to nearest, ties to even
        Round(b, e, sticky) ==
            LET n == Top(b)
                k == n - 53
            IN  IF n = 0 THEN [m |-> <<>>, e |-> 0]
                ELSE IF k <= 0 THEN [m |-> Zeros(-k) \o SubSeq(b, 1, n), e |-> e + k]
                ELSE LET kept == SubSeq(b, k + 1, n)
                         rest == sticky \/ \E i \in 1..(k - 1) : b[i] = 1
                         up == b[k] = 1 /\ (rest \/ kept[1] = 1)
                         next == AddBits(kept, <<1>>)
                     IN  IF ~up THEN [m |-> kept, e |-> e + k]
                         ELSE IF next[54] = 0 THEN [m |-> SubSeq(next, 1, 53), e |-> e + k]
                         ELSE [m |-> SubSeq(next, 2, 54), e |-> e + k + 1]
        RECURSIVE Bits(_)
        Bits(n) == IF n = 0 THEN <<>> ELSE <<n % 2>> \o Bits(n \div 2)
        Byte(n) == [i \in 1..8 |-> (n \div (2 ^ (i - 1))) % 2]
        \* the bits of floor(r * 2^(8 * k) / d) below the binary point
        RECURSIVE Fraction(_, _, _)
        Fraction(r, d, k) ==
            IF k = 0 THEN [bits |-> <<>>, sticky |-> r # 0]
            ELSE LET f == Fraction((256 * r) % d, d, k - 1)
                 IN  [bits |-> f.bits \o Byte((256 * r) \div d), sticky |-> f.sticky]
        \* the sum of the copies of a shifted to the bits lo..hi of b
        RECURSIVE Product(_, _, _, _)
        Product(a, b, lo, hi) ==
            IF lo = hi THEN (IF b[lo] = 1 THEN Zeros(lo - 1) \o a ELSE <<>>)
            ELSE AddBits(Product(a, b, lo, (lo + hi) \div 2),
                         Product(a, b, (lo + hi) \div 2 + 1, hi))
    IN  CASE op = "/" ->
                 LET f == Fraction(x % y, y, 10)
                 IN  Round(f.bits \o Bits(x \div y), -80, f.sticky)
          [] op = "+" ->
                 IF x.m = <<>> THEN y
                 ELSE IF y.m = <<>> THEN x
                 ELSE LET e == IF x.e < y.e THEN x.e ELSE y.e
                      IN  Round(AddBits(Zeros(x.e - e) \o x.m,
                                        Zeros(y.e - e) \o y.m), e, FALSE)
          [] op = "*" ->
                 IF x.m = <<>> \/ y.m = <<>> THEN [m |-> <<>>, e |-> 0]
                 ELSE Round(Product(x.m, y.m, 1, 53), x.e + y.e, FALSE)

\* calculateCost as the binary64 number it returns
calculateCost64(model, prompt_tokens, completion_tokens) ==
    LET priceKey == FindPrefix(sortedKeys, model)
    IN  IF Falsy(priceKey) THEN [m |-> <<>>, e |-> 0]
        ELSE LET pricing == PricingOf(priceKey)
                 p_tokens == IF IsFinite(prompt_tokens) THEN prompt_tokens.v ELSE 0
                 c_tokens == IF IsFinite(completion_tokens)
                             THEN completion_tokens.v ELSE 0
                 inputCost == Float64("*", Float64("/", p_tokens, 1000000),
                                      Float64("/", pricing.input, 100))
                 outputCost == Float64("*", Float64("/", c_tokens, 1000000),
                                       Float64("/", pricing.output, 100))
             IN  Float64("+", inputCost, outputCost)

\* x || 0 on a counter
OrZero(x) == IF x.kind \in {"undefined", "NaN"} \/ x = Num(0) THEN Num(0) ELSE x

\* a sum that would keep only its second operand
PlusSecond(a, b) == b

\* prompt_tokens + completion_tokens
Plus(a, b) ==
    IF IsFinite(a) /\ IsFinite(b) THEN Num(a.v + b.v)
    ELSE IF a.kind = "NaN" \/ b.kind = "NaN" THEN NaN
    ELSE Infinity

\* { ...ERROR_RESULT, error: errorMsg, responseTime }
Timed(result, responseTime) == [result EXCEPT !.responseTime = responseTime]

\* the result of a successful call
SuccessResult(model, usage, responseTime) ==
    LET prompt_tokens == OrZero(usage.prompt)
        completion_tokens == OrZero(usage.completion)
    IN  [prompt_tokens |-> prompt_tokens,
         completion_tokens |-> completion_tokens,
         total_tokens |-> IF OrZero(usage.total) = Num(0)
                          THEN Plus(prompt_tokens, completion_tokens)
                          ELSE usage.total,
         mode |-> "real",
         cost |-> calculateCost(model, prompt_tokens, completion_tokens),
         responseTime |-> responseTime,
         error |-> Undefined]

\* the result of a call that succeeds, with the usage and the time of the model
RealResult(model) ==
    SuccessResult(model,
                  [prompt |-> Num(100), completion |-> Num(21), total |-> NoNumber],
                  80)

(* ------------------------------ variables ------------------------------ *)
VARIABLES
    appState,          \* useState<AppState>
    rawData,           \* rawData and headers, as handed over by FileUpload
    dataset,           \* useState<DatasetRow[]>
    results,           \* useState<ResultRow[]>
    lastToast,         \* the toast the last step added ("none": it added none)
    providerSettings,  \* useState<ProviderSettingsData>
    appSettings,       \* useState<AppSettings>
    cancelRunRef,      \* cancelRunRef.current
    abortController,   \* abortControllerRef.current: gen 0 is null
    pool,              \* the frame of the asyncPool call of the latest run
    calls,             \* the iteratorFn invocations that have not settled
    timers,            \* pending pacing timeouts, oldest first
    micro,             \* the microtask queue, oldest first
    localStorage       \* the `${id}_apiKey` items of window.localStorage, by id

vars == <<appState, rawData, dataset, results, lastToast, providerSettings,
          appSettings, cancelRunRef, abortController, pool, calls, timers,
          micro, localStorage>>

\* `invoked` is a history field: the indices iteratorFn was invoked with
NoPool ==
    [run |-> 0, tasks |-> <<>>, next |-> 1, pc |-> "none", executing |-> {},
     rejected |-> {}, results |-> <<>>, concurrency |-> 0, delayMs |-> 0,
     invoked |-> <<>>]

\* The settings survive handleReset: the session starts with the file still
\* to be loaded and the settings as edited before.
Init ==
    /\ appState = "Initial"
    /\ rawData = NoFile
    /\ dataset = <<>>
    /\ results = <<>>
    /\ lastToast = "none"
    /\ providerSettings \in ProviderConfigs
    /\ appSettings \in AppSettingsChoices
    /\ cancelRunRef = FALSE
    /\ abortController = [gen |-> 0, aborted |-> FALSE]
    /\ pool = NoPool
    /\ calls = <<>>
    /\ timers = <<>>
    /\ micro = <<>>
    /\ localStorage = <<>>


(* ----------------------- App.tsx: loading the data ---------------------- *)
\* FileUpload's reader.onload calls onFileLoaded for a non-empty parse
handleFileLoaded(file) ==
    /\ micro = <<>>
    /\ appState = "Initial"
    /\ rawData' = file
    /\ appState' = "MappingColumns"
    /\ lastToast' = "none"
    /\ UNCHANGED localStorage
    /\ UNCHANGED <<dataset, results, providerSettings, appSettings,
                   cancelRunRef, abortController, pool, calls, timers, micro>>

\* ColumnMapper.autoDetectMapping: a field is mapped to the header of its name
autoDetectMapping(headers) == headers \cap AllHeaders

MappedRow(row, index, mapping) ==
    [id |-> IF Falsy(Cell(row, "id")) THEN "row-" \o ToString(index) ELSE row.id,
     en |-> toNFC(Cell(row, "en")),
     tr |-> toNFC(Cell(row, "tr")),
     tr_nodia |-> IF "tr_nodia" \in mapping
                  THEN toNFC(Cell(row, "tr_nodia"))
                  ELSE stripDiacriticsTr(toNFC(Cell(row, "tr"))),
     type |-> "default"]

\* "Confirm Mapping" with the auto-detected mapping (enabled when id, en and tr
\* are mapped)
handleColumnMapping ==
    /\ micro = <<>>
    /\ appState = "MappingColumns"
    /\ LET mapping == autoDetectMapping(rawData.headers)
       IN  /\ RequiredHeaders \subseteq mapping
           /\ dataset' = [i \in 1..Len(rawData.rows) |->
                              MappedRow(rawData.rows[i], i, mapping)]
    /\ appState' = "ReadyToRun"
    /\ lastToast' = "none"
    /\ UNCHANGED localStorage
    /\ UNCHANGED <<rawData, results, providerSettings, appSettings,
                   cancelRunRef, abortController, pool, calls, timers, micro>>

\* the Cancel button of ColumnMapper: onCancel={() => setAppState(Initial)}
cancelColumnMapping ==
    /\ micro = <<>>
    /\ appState = "MappingColumns"
    /\ appState' = "Initial"
    /\ lastToast' = "none"
    /\ UNCHANGED localStorage
    /\ UNCHANGED <<rawData, dataset, results, providerSettings, appSettings,
                   cancelRunRef, abortController, pool, calls, timers, micro>>

\* the run controls are rendered from ReadyToRun on
ControlsShown == AppStateRank(appState) >= AppStateRank("ReadyToRun")

\* The Reset button is disabled while running.  The frame of the asyncPool
\* call of the last run has returned and is unreachable: it is dropped here.
handleReset ==
    /\ micro = <<>>
    /\ ControlsShown
    /\ appState # "Running"
    /\ appState' = "Initial"
    /\ dataset' = <<>>
    /\ results' = <<>>
    /\ rawData' = NoFile
    /\ pool' = NoPool
    /\ lastToast' = "none"
    /\ UNCHANGED localStorage
    /\ UNCHANGED <<providerSettings, appSettings, cancelRunRef,
                   abortController, calls, timers, micro>>

\* ProviderSettings is disabled while running.  One step stands for the edits
\* of the cards that lead to a configuration: every provider switched off,
\* the models blanked, the keys cleared.
setProviderSettings(settings) ==
    /\ micro = <<>>
    /\ ControlsShown
    /\ appState # "Running"
    /\ settings # providerSettings
    /\ providerSettings' = settings
    /\ lastToast' = "none"
    /\ UNCHANGED localStorage
    /\ UNCHANGED <<appState, rawData, dataset, results, appSettings, cancelRunRef,
                   abortController, pool, calls, timers, micro>>

(* ----------------------- App.tsx: task expansion ------------------------ *)
\* String.prototype.trim, the blank being the white space of the model
\* a trim that would leave the text as typed
TrimNothing(s) == s

Trim(s) ==
    LET RECURSIVE TrimStart(_), TrimEnd(_)
        TrimStart(x) ==
            IF x # "" /\ SubSeq(x, 1, 1) = " "
            THEN TrimStart(SubSeq(x, 2, Len(x)))
            ELSE x
        TrimEnd(x) ==
            IF x # "" /\ SubSeq(x, Len(x), Len(x)) = " "
            THEN TrimEnd(SubSeq(x, 1, Len(x) - 1))
            ELSE x
    IN  TrimEnd(TrimStart(s))

\* a validation that would let every configuration through
missingKeyProvidersNone(settings) == <<>>

missingKeyProviders(settings) ==
    Filter(ProviderIds,
           {id \in DOMAIN settings :
                settings[id].enabled /\ Falsy(Trim(settings[id].apiKey))})

\* a registry that would leave the stub out
RegistryNoStub == <<"openai", "gemini", "grok">>

\* the ids of the adapters that getProviders returns
Registry == <<"openai", "gemini", "anthropic", "grok">>

\* Object.keys(providerSettings) filtered by enabled, mapped through
\* providers.find and filtered by !!p
enabledProviders(settings) ==
    Filter(ProviderIds, {id \in DOMAIN settings :
                            settings[id].enabled /\ id \in Range(Registry)})

\* a slice that would ignore the limit
rowsToProcessAll(rows, runFirstN) == rows

rowsToProcess(rows, runFirstN) ==
    IF runFirstN > 0
    THEN SubSeq(rows, 1, IF runFirstN < Len(rows) THEN runFirstN ELSE Len(rows))
    ELSE rows

\* an expansion of a row that would go through the variants first
RowTasksVariantMajor(row, providers, settings) ==
    Flatten([v \in 1..Len(Variants) |->
        Flatten([p \in 1..Len(providers) |->
            [m \in 1..Len(settings[providers[p]].models) |->
                [row |-> row, provider |-> providers[p], variant |-> Variants[v],
                 model |-> settings[providers[p]].models[m]]]])])

\* lines 147-156: for a row, each enabled provider, each non-blank model and
\* each variant
RowTasks(row, providers, settings) ==
    LET ModelTasks(provider, model) ==
            IF Falsy(model) THEN <<>>
            ELSE [v \in 1..Len(Variants) |->
                     [row |-> row, provider |-> provider, variant |-> Variants[v],
                      model |-> model]]
        ProviderTasks(provider) ==
            Flatten([m \in 1..Len(settings[provider].models) |->
                        ModelTasks(provider, settings[provider].models[m])])
    IN  Flatten([p \in 1..Len(providers) |-> ProviderTasks(providers[p])])

\* an expansion that would stop after the first row
ExpandTasksFirstRow(rows, providers, settings) ==
    IF rows = <<>> THEN <<>> ELSE RowTasks(Head(rows), providers, settings)

ExpandTasks(rows, providers, settings) ==
    Flatten([r \in 1..Len(rows) |-> RowTasks(rows[r], providers, settings)])


(* --------------------- promises and the microtask queue ----------------- *)
\* A task of a run is named <<run, index>>.  A job of the microtask queue is
\* the continuation of one await:
\*   "adapter"  runTask resumes with the result `out` of countTokens (line 173)
\*   "iife"     the pool's wrapper resumes with runTask's value `res` (line 914)
\*   "threw"    the wrapper's promise rejects, runTask having thrown
\*   "then"     the wrapper's promise is fulfilled: the callback of line 921
\*   "pool"     asyncPool resumes after Promise.race or Promise.all
\* `res` is <<>> for undefined and <<row>> for a ResultRow.
NoKey == <<0, 0>>

NoOut == [mode |-> "none", error |-> Undefined]

Job(k, key, out, res) == [k |-> k, key |-> key, out |-> out, res |-> res]

PoolJob == Job("pool", NoKey, NoOut, <<>>)

HasPoolJob(q) == \E i \in 1..Len(q) : q[i].k = "pool"

Without(f, key) == [k \in DOMAIN f \ {key} |-> f[k]]

\* the keys of a set in ascending order of run and index
RECURSIVE SortKeys(_)
SortKeys(ks) ==
    IF ks = {} THEN <<>>
    ELSE LET k == CHOOSE x \in ks : \A y \in ks :
                      x[1] < y[1] \/ (x[1] = y[1] /\ x[2] <= y[2])
         IN  <<k>> \o SortKeys(ks \ {k})

(* ------------------------ App.tsx: runTask ------------------------------ *)
\* runTask up to its first await (lines 165-173) with countTokens up to its
\* first await.  `s` is the state the synchronous code runs in.
StartCall(s, task, key, delayMs) ==
    LET text == task.row[task.variant]
        apiKey == providerSettings[task.provider].apiKey
        call == [task |-> task, st |-> "micro", sig |-> s.ctl.gen,
                 delayMs |-> delayMs, res |-> <<>>]
        settled(out) == [call |-> call, jobs |-> <<Job("adapter", key, out, <<>>)>>]
    IN  IF s.cancel
        THEN [call |-> call, jobs |-> <<Job("iife", key, NoOut, <<>>)>>]
        ELSE IF text = Undefined
        THEN [call |-> call, jobs |-> <<Job("threw", key, NoOut, <<>>)>>]
        ELSE IF task.provider = "anthropic"
        THEN settled(ERROR_RESULT("This provider is not implemented yet."))
        ELSE IF Falsy(apiKey)
        THEN settled(ERROR_RESULT("API key is missing."))
        ELSE IF task.provider = "gemini"
        THEN [call |-> [call EXCEPT !.st = "sdk"], jobs |-> <<>>]
        ELSE IF s.ctl.aborted
        THEN settled(FetchCatch(AbortError))
        ELSE [call |-> [call EXCEPT !.st = "fetch"], jobs |-> <<>>]

\* lines 175-185
ResultRowOf(task, key, out) ==
    out @@ [task |-> key, id |-> task.row.id,
            provider |-> ProviderName(task.provider),
            model |-> task.model, variant |-> task.variant,
            chars |-> Len(task.row[task.variant])]

\* lines 187-189
IsCancelledRow(row) == ~Falsy(row.error) /\ row.error = "Request cancelled"

\* a faulty update that would add the row twice
AppendRowTwice(prev, row) == Append(Append(prev, row), row)

\* setResults(prev => [...prev, resultRow]), line 191
AppendRow(prev, row) == Append(prev, row)

(* ------------------------ utils.ts: asyncPool --------------------------- *)
\* a pool that would never read the flag
CancelNeverSeen(s) == FALSE

\* cancelRef?.current, read at lines 898, 904 and 909
CancelRequested(s) == s.cancel

\* a comparison that would be off by one
PoolFullOffByOne(p) == Cardinality(p.executing) > p.concurrency

\* executing.size >= concurrency, line 902
PoolFull(p) == Cardinality(p.executing) >= p.concurrency

\* lines 913-922: the wrapper is started on the next item and its promise
\* is added to `executing`
Admit(s) ==
    LET p == s.pool
        key == <<p.run, p.next>>
        sc == StartCall(s, p.tasks[p.next], key, p.delayMs)
    IN  [s EXCEPT !.pool = [p EXCEPT !.next = @ + 1, !.executing = @ \cup {key},
                                     !.invoked = Append(@, p.next)],
                  !.calls = (key :> sc.call) @@ @,
                  !.micro = @ \o sc.jobs]

\* await Promise.race(executing), line 903: a promise of the set that has
\* already rejected rejects the race
AwaitRace(s) ==
    [s EXCEPT !.pool.pc = IF s.pool.rejected # {} THEN "rejected" ELSE "race"]

\* a pool that would return without awaiting what is in flight
AwaitAllNoWait(s) ==
    [s EXCEPT !.pool.pc = IF s.pool.rejected # {} THEN "rejected" ELSE "resolved"]

\* await Promise.all(executing), line 925
AwaitAll(s) ==
    [s EXCEPT !.pool.pc = IF s.pool.rejected # {} THEN "rejected"
                          ELSE IF s.pool.executing = {} THEN "resolved"
                          ELSE "all"]

RECURSIVE ForItem(_), WhileFull(_), BeforeAdmit(_)
\* line 897-900: the head of the for loop
ForItem(s) ==
    IF s.pool.next > Len(s.pool.tasks) THEN AwaitAll(s)
    ELSE IF CancelRequested(s) THEN AwaitAll(s)
    ELSE WhileFull(s)

\* line 902: the condition of the while loop
WhileFull(s) ==
    IF PoolFull(s.pool) THEN AwaitRace(s) ELSE BeforeAdmit(s)

\* lines 909-922
BeforeAdmit(s) ==
    IF CancelRequested(s) THEN AwaitAll(s) ELSE ForItem(Admit(s))

\* lines 904-906: asyncPool resumes after the race
ResumeRace(s) ==
    IF CancelRequested(s) THEN BeforeAdmit(s) ELSE WhileFull(s)


(* ----------------------- App.tsx: handleRun ----------------------------- *)
\* a continuation that would report completion whatever the flag
AfterPoolFlagUnread(pc) ==
    IF pc = "resolved"
    THEN lastToast' = "runComplete" /\ appState' = "ShowingResults"
    ELSE IF pc = "rejected"
    THEN lastToast' = "none" /\ appState' = "ReadyToRun"
    ELSE lastToast' = "none" /\ appState' = appState

\* handleRun after `await asyncPool(...)`, lines 200-211
AfterPool(pc) ==
    IF pc = "resolved"
    THEN IF cancelRunRef
         THEN lastToast' = "runCancelled" /\ appState' = "ReadyToRun"
         ELSE lastToast' = "runComplete" /\ appState' = "ShowingResults"
    ELSE IF pc = "rejected"
    THEN lastToast' = "none" /\ appState' = "ReadyToRun"
    ELSE lastToast' = "none" /\ appState' = appState

\* the state the synchronous code of a microtask runs in
Here == [pool |-> pool, calls |-> calls, micro |-> Tail(micro),
         cancel |-> cancelRunRef, ctl |-> abortController]

\* the effect of pool code that ran to its next await (or to its end)
Commit(s) ==
    /\ pool' = s.pool
    /\ calls' = s.calls
    /\ micro' = s.micro
    /\ IF s.pool.pc # pool.pc THEN AfterPool(s.pool.pc)
       ELSE lastToast' = "none" /\ appState' = appState
    /\ UNCHANGED localStorage

NewPool(run, tasks, settings) ==
    [run |-> run, tasks |-> tasks, next |-> 1, pc |-> "none", executing |-> {},
     rejected |-> {}, results |-> <<>>, concurrency |-> settings.concurrency,
     delayMs |-> settings.delay, invoked |-> <<>>]

\* a check that would let an empty task list through
NoTasksNever(tasks) == FALSE

\* tasks.length === 0, line 159
NoTasks(tasks) == tasks = <<>>

\* a controller that would be kept from run to run
SameController(ctl) == [ctl EXCEPT !.gen = @ + 1]

\* abortControllerRef.current = new AbortController(), line 128
NewController(ctl) == [gen |-> ctl.gen + 1, aborted |-> FALSE]

\* The Run button is shown whenever the controls are and the app is not running.
handleRun ==
    /\ micro = <<>>
    /\ ControlsShown
    /\ appState # "Running"
    /\ UNCHANGED localStorage
    /\ IF missingKeyProviders(providerSettings) # <<>>
       THEN /\ lastToast' = "missingKey"
            /\ UNCHANGED <<appState, rawData, dataset, results, providerSettings,
                           appSettings, cancelRunRef, abortController, pool,
                           calls, timers, micro>>
       ELSE /\ abortController.gen < MaxRuns
            /\ results' = <<>>
            /\ cancelRunRef' = FALSE
            /\ abortController' = NewController(abortController)
            /\ UNCHANGED <<rawData, dataset, providerSettings, appSettings, timers>>
            /\ LET providers == enabledProviders(providerSettings)
                   rows == rowsToProcess(dataset, appSettings.runFirstN)
                   tasks == ExpandTasks(rows, providers, providerSettings)
               IN  IF providers = <<>>
                   THEN /\ lastToast' = "noProviders"
                        /\ appState' = "ReadyToRun"
                        /\ UNCHANGED <<pool, calls, micro>>
                   ELSE IF NoTasks(tasks)
                   THEN /\ lastToast' = "noModels"
                        /\ appState' = "ReadyToRun"
                        /\ UNCHANGED <<pool, calls, micro>>
                   ELSE LET s == ForItem(
                                   [pool |-> NewPool(abortController'.gen, tasks,
                                                     appSettings),
                                    calls |-> calls, micro |-> micro,
                                    cancel |-> FALSE, ctl |-> abortController'])
                        IN  /\ pool' = s.pool
                            /\ calls' = s.calls
                            /\ micro' = s.micro
                            /\ appState' = "Running"
                            /\ lastToast' = "none"

\* the fetch or body read of a call that listens to the aborted signal rejects
Abortable(c) ==
    /\ PassesSignal(c.task.provider)
    /\ c.st \in {"fetch", "bodyOk", "bodyErr"}
    /\ c.sig = abortController.gen

AbortedBy(cs) == {k \in DOMAIN cs : Abortable(cs[k])}

\* the Cancel button replaces the Run button while the app is running
handleCancel ==
    /\ micro = <<>>
    /\ appState = "Running"
    /\ cancelRunRef' = TRUE
    /\ abortController' = [abortController EXCEPT !.aborted = TRUE]
    /\ LET hit == AbortedBy(calls)
           order == SortKeys(hit)
       IN  /\ calls' = [k \in DOMAIN calls |->
                           IF k \in hit THEN [calls[k] EXCEPT !.st = "micro"]
                           ELSE calls[k]]
           /\ micro' = [i \in 1..Len(order) |->
                           Job("adapter", order[i],
                               RejectedIn(calls[order[i]].task.provider,
                                          calls[order[i]].st, AbortError),
                               <<>>)]
    /\ lastToast' = "none"
    /\ UNCHANGED localStorage
    /\ UNCHANGED <<appState, rawData, dataset, results, providerSettings, appSettings, pool, timers>>

(* --------------------------- network events ----------------------------- *)
Settle(key, out) ==
    /\ calls' = [calls EXCEPT ![key].st = "micro"]
    /\ micro' = <<Job("adapter", key, out, <<>>)>>
    /\ lastToast' = "none"
    /\ UNCHANGED localStorage
    /\ UNCHANGED <<appState, rawData, dataset, results, providerSettings, appSettings, cancelRunRef, abortController,
                   pool, timers>>

\* `await fetch(...)` resolves with a response
FetchResponds(key, ok) ==
    /\ micro = <<>>
    /\ key \in DOMAIN calls
    /\ calls[key].st = "fetch"
    /\ calls' = [calls EXCEPT ![key].st = IF ok THEN "bodyOk" ELSE "bodyErr"]
    /\ lastToast' = "none"
    /\ UNCHANGED localStorage
    /\ UNCHANGED <<appState, rawData, dataset, results, providerSettings, appSettings, cancelRunRef, abortController,
                   pool, timers, micro>>

\* `await fetch(...)` rejects: no connection, CORS
FetchFails(key, error) ==
    /\ micro = <<>>
    /\ key \in DOMAIN calls
    /\ calls[key].st = "fetch"
    /\ Settle(key, FetchCatch(error))

\* `await response.json()` of an ok response
BodyArrives(key) ==
    /\ micro = <<>>
    /\ key \in DOMAIN calls
    /\ calls[key].st = "bodyOk"
    /\ Settle(key, RealResult(calls[key].task.model))

\* `await response.json()` of a response that is not ok
ErrorBodyArrives(key, errorData) ==
    /\ micro = <<>>
    /\ key \in DOMAIN calls
    /\ calls[key].st = "bodyErr"
    /\ Settle(key, NotOkResult(calls[key].task.provider, errorData))

\* the import of the SDK and generateContent, taken as one await
SdkSettles(key, ok) ==
    /\ micro = <<>>
    /\ key \in DOMAIN calls
    /\ calls[key].st = "sdk"
    /\ Settle(key, IF ok THEN RealResult(calls[key].task.model)
                   ELSE GeminiCatch(JsError("Gemini API Error")))

(* ------------------------------ microtasks ------------------------------ *)
\* runTask resumes after `await countTokens(...)`, lines 173-192
RunTaskResumes ==
    /\ micro # <<>>
    /\ Head(micro).k = "adapter"
    /\ LET job == Head(micro)
           row == ResultRowOf(calls[job.key].task, job.key, job.out)
       IN  IF IsCancelledRow(row)
           THEN /\ results' = results
                /\ micro' = Append(Tail(micro), Job("iife", job.key, NoOut, <<>>))
           ELSE /\ results' = AppendRow(results, row)
                /\ micro' = Append(Tail(micro), Job("iife", job.key, NoOut, <<row>>))
    /\ lastToast' = "none"
    /\ UNCHANGED localStorage
    /\ UNCHANGED <<appState, rawData, dataset, providerSettings,
                   appSettings, cancelRunRef, abortController, pool, calls,
                   timers>>

\* results.push(result), line 918; the promise of the wrapper is fulfilled
Push(key, res) ==
    /\ pool' = IF key[1] = pool.run
               THEN [pool EXCEPT !.results = Append(@, res)]
               ELSE pool

\* delayMs > 0 && !cancelRef?.current, line 915
Paces(delayMs) == delayMs > 0 /\ ~cancelRunRef

\* the wrapper resumes after `await iteratorFn(item)`, lines 914-918
WrapperResumes ==
    /\ micro # <<>>
    /\ Head(micro).k = "iife"
    /\ LET job == Head(micro)
       IN  IF Paces(calls[job.key].delayMs)
           THEN /\ calls' = [calls EXCEPT ![job.key].st = "pacing",
                                          ![job.key].res = job.res]
                /\ timers' = Append(timers, job.key)
                /\ micro' = Tail(micro)
                /\ pool' = pool
           ELSE /\ Push(job.key, job.res)
                /\ micro' = Append(Tail(micro), Job("then", job.key, NoOut, <<>>))
                /\ UNCHANGED <<calls, timers>>
    /\ lastToast' = "none"
    /\ UNCHANGED localStorage
    /\ UNCHANGED <<appState, rawData, dataset, results, providerSettings, appSettings, cancelRunRef, abortController>>

\* the timeout of line 916 fires; timeouts of one delay fire in the order set
TimerFires(i) ==
    /\ micro = <<>>
    /\ i \in 1..Len(timers)
    /\ \A j \in 1..(i - 1) : calls[timers[j]].delayMs # calls[timers[i]].delayMs
    /\ Push(timers[i], calls[timers[i]].res)
    /\ micro' = <<Job("then", timers[i], NoOut, <<>>)>>
    /\ timers' = [j \in 1..(Len(timers) - 1) |->
                     IF j < i THEN timers[j] ELSE timers[j + 1]]
    /\ calls' = [calls EXCEPT ![timers[i]].st = "micro"]
    /\ lastToast' = "none"
    /\ UNCHANGED localStorage
    /\ UNCHANGED <<appState, rawData, dataset, results, providerSettings, appSettings, cancelRunRef, abortController>>

\* a callback that would delete the promise without settling what asyncPool
\* awaits
ThenRunsNoWake ==
    /\ micro # <<>>
    /\ Head(micro).k = "then"
    /\ pool' = IF Head(micro).key[1] = pool.run
               THEN [pool EXCEPT !.executing = @ \ {Head(micro).key}]
               ELSE pool
    /\ calls' = Without(calls, Head(micro).key)
    /\ micro' = Tail(micro)
    /\ lastToast' = "none"
    /\ UNCHANGED <<appState, rawData, dataset, results, providerSettings,
                   appSettings, cancelRunRef, abortController, timers,
                   localStorage>>

\* executing.delete(executingPromise), line 921; a pending race of the pool is
\* settled by it, a pending Promise.all when the set has become empty
ThenRuns ==
    /\ micro # <<>>
    /\ Head(micro).k = "then"
    /\ LET key == Head(micro).key
           mine == key[1] = pool.run
           left == pool.executing \ {key}
           wakes == /\ mine
                    /\ ~HasPoolJob(micro)
                    /\ \/ pool.pc = "race"
                       \/ pool.pc = "all" /\ left = {}
       IN  /\ pool' = IF mine THEN [pool EXCEPT !.executing = left] ELSE pool
           /\ calls' = Without(calls, key)
           /\ micro' = IF wakes THEN Append(Tail(micro), PoolJob) ELSE Tail(micro)
    /\ lastToast' = "none"
    /\ UNCHANGED localStorage
    /\ UNCHANGED <<appState, rawData, dataset, results, providerSettings, appSettings, cancelRunRef, abortController,
                   timers>>

\* runTask threw on `text.length` (line 168): the promise of the wrapper
\* rejects, and with it the promise in `executing`, which is never deleted
WrapperRejects ==
    /\ micro # <<>>
    /\ Head(micro).k = "threw"
    /\ LET key == Head(micro).key
           waiting == pool.pc \in {"race", "all"} /\ ~HasPoolJob(micro)
           s == [Here EXCEPT !.pool.rejected = @ \cup {key},
                             !.pool.pc = IF waiting THEN "rejected" ELSE @,
                             !.calls = Without(calls, key)]
       IN  Commit(s)
    /\ UNCHANGED <<rawData, dataset, results, providerSettings, appSettings,
                   cancelRunRef, abortController, timers>>

\* asyncPool resumes: after the race (line 904) or after Promise.all (line 926)
PoolResumes ==
    /\ micro # <<>>
    /\ Head(micro).k = "pool"
    /\ IF pool.pc = "race"
       THEN Commit(ResumeRace(Here))
       ELSE Commit([Here EXCEPT !.pool.pc = "resolved"])
    /\ UNCHANGED <<rawData, dataset, results, providerSettings, appSettings,
                   cancelRunRef, abortController, timers>>

(* ---------------------------- specification ----------------------------- *)
Next ==
    \/ \E file \in Files : handleFileLoaded(file)
    \/ handleColumnMapping
    \/ cancelColumnMapping
    \/ handleReset
    \/ \E settings \in ConfigErrors : setProviderSettings(settings)
    \/ handleRun
    \/ handleCancel
    \/ \E key \in DOMAIN calls, ok \in BOOLEAN : FetchResponds(key, ok)
    \/ \E key \in DOMAIN calls, error \in TransportErrors : FetchFails(key, error)
    \/ \E key \in DOMAIN calls : BodyArrives(key)
    \/ \E key \in DOMAIN calls, errorData \in ErrorBodies :
           ErrorBodyArrives(key, errorData)
    \/ \E key \in DOMAIN calls, ok \in BOOLEAN : SdkSettles(key, ok)
    \/ \E i \in 1..Len(timers) : TimerFires(i)
    \/ RunTaskResumes
    \/ WrapperResumes
    \/ ThenRuns
    \/ WrapperRejects
    \/ PoolResumes

Spec == Init /\ [][Next]_vars

\* The steps that need no user: the event loop runs every queued microtask
\* and every timeout that is due, and every adapter call eventually settles.
Settling ==
    \/ \E key \in DOMAIN calls, ok \in BOOLEAN : FetchResponds(key, ok)
    \/ \E key \in DOMAIN calls, error \in TransportErrors : FetchFails(key, error)
    \/ \E key \in DOMAIN calls : BodyArrives(key)
    \/ \E key \in DOMAIN calls, errorData \in ErrorBodies :
           ErrorBodyArrives(key, errorData)
    \/ \E key \in DOMAIN calls, ok \in BOOLEAN : SdkSettles(key, ok)
    \/ \E i \in 1..Len(timers) : TimerFires(i)
    \/ RunTaskResumes
    \/ WrapperResumes
    \/ ThenRuns
    \/ WrapperRejects
    \/ PoolResumes

SpecLive == Spec /\ WF_vars(Settling)

(* ------------------ the settings cards and task expansion --------------- *)
\* This specification follows the edits of the provider cards from the
\* defaults up to the task expansion of a run (App.tsx:130-157).
ExpandFiles ==
    {[headers |-> RequiredHeaders,
      rows |-> [i \in 1..n |-> [id |-> ToString(i), en |-> "abc", tr |-> "e~"]]] :
        n \in 1..MaxRows}

\* the cards whose model lists are edited
EditedProviders == {"openai", "gemini"}

\* what is typed into the "add model" input before Enter
ExpandInit ==
    /\ appState = "ReadyToRun"
    /\ rawData \in ExpandFiles
    /\ dataset = [i \in 1..Len(rawData.rows) |->
                     MappedRow(rawData.rows[i], i, RequiredHeaders)]
    /\ results = <<>>
    /\ lastToast = "none"
    /\ providerSettings = DefaultProviderSettings
    /\ appSettings \in [concurrency : {2}, delay : {100}, runFirstN : 0..MaxFirstN,
                        regenerateTrNodia : {FALSE}]
    /\ cancelRunRef = FALSE
    /\ abortController = [gen |-> 0, aborted |-> FALSE]
    /\ pool = NoPool
    /\ calls = <<>>
    /\ timers = <<>>
    /\ micro = <<>>
    /\ localStorage = <<>>

\* ProviderCard: onChange(id, newSetting) reaches setProviderSettings
EditCard(id, newSetting) ==
    /\ micro = <<>>
    /\ ControlsShown
    /\ appState # "Running"
    /\ pool = NoPool
    /\ providerSettings' = [providerSettings EXCEPT ![id] = newSetting]
    /\ lastToast' = "none"
    /\ UNCHANGED localStorage
    /\ UNCHANGED <<appState, rawData, dataset, results, appSettings, cancelRunRef,
                   abortController, pool, calls, timers, micro>>

\* the "enabled" checkbox of a card
toggleEnabled(id) ==
    EditCard(id, [providerSettings[id] EXCEPT !.enabled = ~@])

\* Enter in the "add model" input, shown on an enabled card
handleAddModel(id, value) ==
    /\ providerSettings[id].enabled
    /\ LET newModel == Trim(value)
           setting == providerSettings[id]
       IN  EditCard(id, IF ~Falsy(newModel) /\ newModel \notin Range(setting.models)
                        THEN [setting EXCEPT !.models = Append(@, newModel)]
                        ELSE setting)

\* the remove button of a model chip
handleRemoveModel(id, modelToRemove) ==
    /\ providerSettings[id].enabled
    /\ modelToRemove \in Range(providerSettings[id].models)
    /\ EditCard(id, [providerSettings[id] EXCEPT
                        !.models = Filter(@, Range(@) \ {modelToRemove})])

\* the task list handleRun builds from the settings and the dataset
buildTasks ==
    /\ micro = <<>>
    /\ pool = NoPool
    /\ pool' = [NoPool EXCEPT
                   !.tasks = ExpandTasks(rowsToProcess(dataset, appSettings.runFirstN),
                                         enabledProviders(providerSettings),
                                         providerSettings)]
    /\ lastToast' = "none"
    /\ UNCHANGED localStorage
    /\ UNCHANGED <<appState, rawData, dataset, results, providerSettings,
                   appSettings, cancelRunRef, abortController, calls, timers, micro>>

ExpandNext ==
    \/ \E id \in Range(ProviderIds) : toggleEnabled(id)
    \/ \E id \in EditedProviders, value \in {"", " ", " gpt-5 ", "gpt-5-nano"} :
           handleAddModel(id, value)
    \/ \E id \in EditedProviders :
           \E m \in Range(providerSettings[id].models) : handleRemoveModel(id, m)
    \/ buildTasks

SpecExpand == ExpandInit /\ [][ExpandNext]_vars

(* ------------------- ProviderCard: the "Remember key" ------------------- *)
\* This specification follows the API key of the cards and its copy in
\* localStorage from a page load on, through the edits of the key, the
\* "Remember key" checkbox, Reset and a reload of the page.
\* what is typed into the key input
\* the page is loaded with the defaults of useState and an empty storage
RememberInit ==
    /\ appState = "Initial"
    /\ rawData = NoFile
    /\ dataset = <<>>
    /\ results = <<>>
    /\ lastToast = "none"
    /\ providerSettings = DefaultProviderSettings
    /\ appSettings = [concurrency |-> 2, delay |-> 100, runFirstN |-> 0,
                      regenerateTrNodia |-> FALSE]
    /\ cancelRunRef = FALSE
    /\ abortController = [gen |-> 0, aborted |-> FALSE]
    /\ pool = NoPool
    /\ calls = <<>>
    /\ timers = <<>>
    /\ micro = <<>>
    /\ localStorage = <<>>

\* the effect of lines 28-36, run after a render in which setting.remember
\* has changed: the setting it leaves
useEffect(id, setting, storage) ==
    IF /\ setting.remember
       /\ id \in DOMAIN storage
       /\ ~Falsy(storage[id])
       /\ storage[id] # setting.apiKey
    THEN [setting EXCEPT !.apiKey = storage[id]]
    ELSE setting

\* an input of an enabled card: onChange(id, newSetting) and the write to
\* localStorage
StoringEdit(id, newSetting, storage) ==
    /\ micro = <<>>
    /\ ControlsShown
    /\ appState # "Running"
    /\ providerSettings[id].enabled
    /\ providerSettings' = [providerSettings EXCEPT ![id] = newSetting]
    /\ localStorage' = storage
    /\ lastToast' = "none"
    /\ UNCHANGED <<appState, rawData, dataset, results, appSettings, cancelRunRef,
                   abortController, pool, calls, timers, micro>>

\* a handler that would store the key whether or not it is to be remembered
\* the key input, lines 38-44
handleKeyChange(id, newKey) ==
    LET setting == providerSettings[id]
    IN  StoringEdit(id, [setting EXCEPT !.apiKey = newKey],
                    IF setting.remember
                    THEN (id :> newKey) @@ localStorage
                    ELSE localStorage)

\* the "Remember key" checkbox, lines 46-54, and the effect that follows the
\* render
handleRememberChange(id) ==
    LET setting == providerSettings[id]
        remember == ~setting.remember
        storage == IF remember
                   THEN (id :> setting.apiKey) @@ localStorage
                   ELSE Without(localStorage, id)
    IN  StoringEdit(id, useEffect(id, [setting EXCEPT !.remember = remember], storage),
                    storage)

\* the page is loaded again: the state of App is the default of useState,
\* localStorage is what the browser kept
Reload ==
    /\ micro = <<>>
    /\ appState # "Running"
    /\ appState' = "Initial"
    /\ rawData' = NoFile
    /\ dataset' = <<>>
    /\ results' = <<>>
    /\ providerSettings' = DefaultProviderSettings
    /\ lastToast' = "none"
    /\ UNCHANGED <<appSettings, cancelRunRef, abortController, pool, calls,
                   timers, micro, localStorage>>

RememberNext ==
    \/ \E file \in Files : handleFileLoaded(file)
    \/ handleColumnMapping
    \/ handleReset
    \/ \E id \in EditedProviders, newKey \in {"", "sk-key", "sk-other"} :
           handleKeyChange(id, newKey)
    \/ \E id \in EditedProviders : handleRememberChange(id)
    \/ Reload

SpecRemember == RememberInit /\ [][RememberNext]_vars

(* ----------------- llmProviders.ts: calculateCost applied --------------- *)
\* the size of the dataset the estimate is shown for
EstimateRows == 100

\* a cost still to be computed is <<>>, a computed one <<cost>>
PricingInit ==
    /\ appState = "Running"
    /\ rawData = NoFile
    /\ dataset = <<>>
    /\ results = <<>>
    /\ lastToast = "none"
    /\ providerSettings = DefaultProviderSettings
    /\ appSettings = [concurrency |-> 2, delay |-> 100, runFirstN |-> 0,
                      regenerateTrNodia |-> FALSE]
    /\ cancelRunRef = FALSE
    /\ abortController = [gen |-> 0, aborted |-> FALSE]
    /\ pool = NoPool
    /\ calls \in [{1} -> [model : {"gpt-5", "gpt-5-mini", "gpt-5-nano", "gpt-5.1",
                                   "gpt-5-pro", "gpt-4o", "gemini-2.5-flash",
                                   "grok-4-latest", "grok-4-fast-non-reasoning",
                                   "grok-3"},
                          prompt_tokens : {Num(0), Num(1000), Num(100000), NaN,
                                           Infinity, NoNumber},
                          completion_tokens : {Num(0), Num(1000), Num(100000), NaN,
                                               Infinity, NoNumber},
                          cost : {<<>>}, estimate : {<<>>}]]
    /\ timers = <<>>
    /\ micro = <<>>
    /\ localStorage = <<>>

\* const cost = calculateCost(model, prompt_tokens, completion_tokens)
CostComputed(key) ==
    /\ calls[key].cost = <<>>
    /\ calls' = [calls EXCEPT ![key].cost =
                     <<calculateCost(calls[key].model, calls[key].prompt_tokens,
                                     calls[key].completion_tokens)>>]
    /\ lastToast' = "none"
    /\ UNCHANGED localStorage
    /\ UNCHANGED <<appState, rawData, dataset, results, providerSettings,
                   appSettings, cancelRunRef, abortController, pool, timers, micro>>

\* RunControls.estimatedCost, FileUpload.tsx lines 107-134: the text shown
\* beside the Run button.  The total is in units of 10^-8 USD.
estimatedCost(settings, runFirstN, datasetSize) ==
    LET rows == IF runFirstN > 0
                THEN (IF runFirstN < datasetSize THEN runFirstN ELSE datasetSize)
                ELSE datasetSize
        keys == [i \in 1..Len(PRICING_DATA) |-> PRICING_DATA[i].key]
        ModelCost(model) ==
            LET priceKey == FindPrefix(keys, model)
            IN  IF Trim(model) = "" \/ Falsy(priceKey) THEN 0
                ELSE (50 * PricingOf(priceKey).input + 2 * PricingOf(priceKey).output)
                     * rows * 3
        models == Flatten([p \in 1..Len(ProviderIds) |->
                              IF settings[ProviderIds[p]].enabled
                              THEN settings[ProviderIds[p]].models ELSE <<>>])
        RECURSIVE Sum(_)
        Sum(ms) == IF ms = <<>> THEN 0 ELSE ModelCost(Head(ms)) + Sum(Tail(ms))
        totalCost == Sum(models)
        \* totalCost.toFixed(4)
        rounded == (totalCost + 5000) \div 10000
        digits == ToString(rounded % 10000)
        zeros == SubSeq("000", 1, 4 - Len(digits))
    IN  IF rows = 0 \/ totalCost = 0 THEN "$0.00"
        ELSE "~$" \o ToString(rounded \div 10000) \o "." \o zeros \o digits

\* RunControls is rendered with the model on the one enabled card and a
\* dataset of EstimateRows rows
EstimateShown(key) ==
    /\ calls[key].estimate = <<>>
    /\ calls' = [calls EXCEPT ![key].estimate =
                     <<estimatedCost([q \in Range(ProviderIds) |->
                                         Setting(q = "openai", "",
                                                 <<calls[key].model>>)],
                                     0, EstimateRows)>>]
    /\ lastToast' = "none"
    /\ UNCHANGED <<appState, rawData, dataset, results, providerSettings,
                   appSettings, cancelRunRef, abortController, pool, timers, micro,
                   localStorage>>

PricingNext == \E key \in DOMAIN calls : CostComputed(key) \/ EstimateShown(key)

SpecPricing == PricingInit /\ [][PricingNext]_vars

(* ------------------- llmProviders.ts: one adapter call ------------------ *)
\* This specification follows one countTokens call of an adapter from its
\* arguments to the result it returns.  A call is in phase "fetch" (openai,
\* grok: fetch pending), "sdk" (gemini: import and generateContent pending),
\* "body" or "bodyErr" (response.json() pending) or "returned"; `network`
\* tells whether a request was started; `notOk` is !response.ok once the
\* response is there; `errorData` is the local of the non-ok branch, <<>>
\* while undefined; `out` is <<>> or <<result>>.
\* the usage counters of a response: each missing, zero or a count
Usages == [prompt : {NoNumber, Num(0), Num(1000)},
           completion : {NoNumber, Num(0), Num(1000)},
           total : {NoNumber, Num(1500)}]

\* Math.round(endTime - startTime)
ResponseTimes == {0, 120}

\* the parsed error bodies of a non-success response: an API reports errors
\* in its own words, which may hold any text
AdapterErrorBodies ==
    ErrorBodies \cup
    {<<[error |-> [message |-> "Could not fetch the model", type |-> Undefined,
                   code |-> Undefined]]>>,
     <<[error |-> [message |-> "Rate limit reached", type |-> "requests",
                   code |-> "rate_limit_exceeded"]]>>,
     <<[error |-> [code |-> "401"], message |-> "Unauthorized"]>>,
     <<[error |-> [code |-> "401"]]>>,
     <<[message |-> "Bad gateway"]>>,
     <<[detail |-> "Not found"]>>}

\* a check that would take no key for missing
MissingKeyNever(apiKey) == FALSE

\* if (!apiKey), lines 101, 215, 314
MissingKey(apiKey) == Falsy(apiKey)

AdapterInit ==
    /\ appState = "Running"
    /\ rawData = NoFile
    /\ dataset = <<>>
    /\ results = <<>>
    /\ lastToast = "none"
    /\ providerSettings = DefaultProviderSettings
    /\ appSettings = [concurrency |-> 2, delay |-> 100, runFirstN |-> 0,
                      regenerateTrNodia |-> FALSE]
    /\ cancelRunRef = FALSE
    /\ abortController = [gen |-> 0, aborted |-> FALSE]
    /\ pool = NoPool
    /\ calls = <<>>
    /\ timers = <<>>
    /\ micro = <<>>
    /\ localStorage = <<>>

AdapterStep(call) ==
    /\ calls' = (1 :> call)
    /\ lastToast' = "none"
    /\ UNCHANGED localStorage
    /\ UNCHANGED <<appState, rawData, dataset, results, providerSettings,
                   appSettings, cancelRunRef, abortController, pool, timers, micro>>

Returned(call, result) == [call EXCEPT !.st = "returned", !.out = <<result>>]

\* provider.countTokens(text, apiKey, model, signal) up to its first await
countTokens(provider, model, apiKey) ==
    /\ calls = <<>>
    /\ LET call == [provider |-> provider, model |-> model, apiKey |-> apiKey,
                    st |-> "returned", network |-> FALSE, notOk |-> FALSE,
                    errorData |-> <<>>, out |-> <<>>]
       IN  AdapterStep(
               IF provider = "anthropic"
               THEN Returned(call, ERROR_RESULT("This provider is not implemented yet."))
               ELSE IF MissingKey(apiKey)
               THEN Returned(call, ERROR_RESULT("API key is missing."))
               ELSE [call EXCEPT !.network = TRUE,
                                 !.st = IF provider = "gemini" THEN "sdk" ELSE "fetch"])

\* fetch resolves with a response
ResponseArrives(ok) ==
    /\ 1 \in DOMAIN calls
    /\ calls[1].st = "fetch"
    /\ AdapterStep([calls[1] EXCEPT !.st = IF ok THEN "body" ELSE "bodyErr",
                                     !.notOk = ~ok])

\* response.json() of a success response resolves
UsageArrives(usage, responseTime) ==
    /\ 1 \in DOMAIN calls
    /\ calls[1].st = "body"
    /\ AdapterStep(Returned(calls[1],
                            SuccessResult(calls[1].model, usage, responseTime)))

\* response.json() of an error response resolves, or fails to parse (<<>>)
ErrorDataArrives(errorData, responseTime) ==
    /\ 1 \in DOMAIN calls
    /\ calls[1].st = "bodyErr"
    /\ AdapterStep(Returned([calls[1] EXCEPT !.errorData = errorData],
                            Timed(NotOkResult(calls[1].provider, errorData),
                                  responseTime)))

\* fetch, or response.json() of a success response, rejects
RequestFails(error, responseTime) ==
    /\ 1 \in DOMAIN calls
    /\ calls[1].st \in {"fetch", "body"}
    /\ AdapterStep(Returned(calls[1], Timed(FetchCatch(error), responseTime)))

\* ai.models.generateContent resolves
SdkReturns(usage, responseTime) ==
    /\ 1 \in DOMAIN calls
    /\ calls[1].st = "sdk"
    /\ AdapterStep(Returned(calls[1],
                            SuccessResult(calls[1].model, usage, responseTime)))

\* the import or generateContent rejects
SdkThrows(error, responseTime) ==
    /\ 1 \in DOMAIN calls
    /\ calls[1].st = "sdk"
    /\ AdapterStep(Returned(calls[1], Timed(GeminiCatch(error), responseTime)))

AdapterNext ==
    \/ \E provider \in Range(ProviderIds), model \in {"gpt-5", "grok-3"},
          apiKey \in {"", " ", "sk-key"} :
           countTokens(provider, model, apiKey)
    \/ \E ok \in BOOLEAN : ResponseArrives(ok)
    \/ \E usage \in Usages, responseTime \in ResponseTimes :
           UsageArrives(usage, responseTime)
    \/ \E errorData \in AdapterErrorBodies \cup {<<>>}, responseTime \in ResponseTimes :
           ErrorDataArrives(errorData, responseTime)
    \/ \E error \in TransportErrors \cup {AbortError}, responseTime \in ResponseTimes :
           RequestFails(error, responseTime)
    \/ \E usage \in Usages, responseTime \in ResponseTimes :
           SdkReturns(usage, responseTime)
    \/ \E error \in {JsError("API key not valid. Please pass a valid API key.")},
          responseTime \in ResponseTimes :
           SdkThrows(error, responseTime)

SpecAdapter == AdapterInit /\ [][AdapterNext]_vars

(* ------------------ AnalysisSummary.tsx: getPerfChange ------------------ *)
\* The numbers of the analysis are averages: a finite one is the fraction
\* n / d with d > 0, the others are NaN, Infinity and -Infinity.  The null
\* returned by getPerfChange is a value of its own.
Q(n, d) == [kind |-> "number", n |-> n, d |-> d]

\* NaN, Infinity and -Infinity
NotFinite == [kind : {"NaN", "Infinity", "-Infinity"}, n : {0}, d : {1}]

Null == [kind |-> "null", n |-> 0, d |-> 1]

\* x === 0
IsZero(x) == x.kind = "number" /\ x.n = 0

\* a change that would be the ratio in percent
getPerfChangeRatio(base, current) ==
    IF IsZero(base) /\ IsZero(current) THEN Q(0, 1)
    ELSE IF IsZero(base) \/ base.kind # "number" \/ current.kind # "number"
    THEN Null
    ELSE Q(current.n * base.d * 100, current.d * base.n)

getPerfChange(base, current) ==
    IF IsZero(base) /\ IsZero(current) THEN Q(0, 1)
    ELSE IF IsZero(base) \/ base.kind # "number" \/ current.kind # "number"
    THEN Null
    ELSE LET \* current / base, the denominator kept positive
             ratio == IF base.n > 0
                      THEN Q(current.n * base.d, current.d * base.n)
                      ELSE Q(0 - current.n * base.d, 0 - current.d * base.n)
             \* ratio - 1
             less == Q(ratio.n - ratio.d, ratio.d)
         IN  Q(less.n * 100, less.d)

\* Math.abs(value).toFixed(1) of a finite value: the tenths rounded half up
toFixed1(value) ==
    LET abs == IF value.n < 0 THEN 0 - value.n ELSE value.n
        tenths == (20 * abs + value.d) \div (2 * value.d)
    IN  ToString(tenths \div 10) \o "." \o ToString(tenths % 10)

\* template.replace('{{value}}', absValue): the first occurrence is replaced
ReplaceValue(template, absValue) ==
    LET at == {i \in 1..(Len(template) - 8) :
                  SubSeq(template, i, i + 8) = "{{value}}"}
    IN  IF at = {} THEN template
        ELSE LET i == CHOOSE j \in at : \A k \in at : j <= k
             IN  SubSeq(template, 1, i - 1) \o absValue
                     \o SubSeq(template, i + 9, Len(template))

\* the text of a change in KeyFindings
formatChange(value, higherTemplate, lowerTemplate, sameText) ==
    IF value = Null THEN sameText
    ELSE IF 2 * (IF value.n < 0 THEN 0 - value.n ELSE value.n) < value.d
    THEN sameText
    ELSE IF value.n > 0 THEN ReplaceValue(higherTemplate, toFixed1(value))
    ELSE ReplaceValue(lowerTemplate, toFixed1(value))

\* t.analysis.sentences: the texts stand for the translations
Sentences ==
    [isSame |-> "is the same",
     usesMoreTokens |-> "uses {{value}}% more tokens",
     usesFewerTokens |-> "uses {{value}}% fewer tokens",
     isSlower |-> "is {{value}}% slower",
     isFaster |-> "is {{value}}% faster",
     isMoreExpensive |-> "is {{value}}% more expensive",
     isCheaper |-> "is {{value}}% cheaper"]

\* what SentenceRow renders: <<>> for nothing, <<predicate>> for a sentence
SentenceRow(value, type) ==
    IF value = Null THEN <<>>
    ELSE LET isZero == 10 * (IF value.n < 0 THEN 0 - value.n ELSE value.n) < value.d
             sentenceKey ==
                 IF isZero THEN "isSame"
                 ELSE IF type = "tokens"
                 THEN (IF value.n > 0 THEN "usesMoreTokens" ELSE "usesFewerTokens")
                 ELSE IF type = "time"
                 THEN (IF value.n > 0 THEN "isSlower" ELSE "isFaster")
                 ELSE (IF value.n > 0 THEN "isMoreExpensive" ELSE "isCheaper")
         IN  <<ReplaceValue(Sentences[sentenceKey], toFixed1(value))>>

\* a change still to be computed is <<>>, a computed one <<change>>
PerfInit ==
    /\ appState = "ShowingResults"
    /\ rawData = NoFile
    /\ dataset = <<>>
    /\ results = <<>>
    /\ lastToast = "none"
    /\ providerSettings = DefaultProviderSettings
    /\ appSettings = [concurrency |-> 2, delay |-> 100, runFirstN |-> 0,
                      regenerateTrNodia |-> FALSE]
    /\ cancelRunRef = FALSE
    /\ abortController = [gen |-> 0, aborted |-> FALSE]
    /\ pool = NoPool
    /\ calls \in LET Averages == {Q(0, 1), Q(100, 1), Q(121, 1), Q(50, 1), Q(7, 2)}
                                    \cup NotFinite
                 IN  [{1} -> [base : Averages, current : Averages, change : {<<>>},
                              text : {<<>>}, sentence : {<<>>}]]
    /\ timers = <<>>
    /\ micro = <<>>
    /\ localStorage = <<>>

\* One render of AnalysisSummary: getPerfChange(base, current), its text in
\* KeyFindings and its sentence in the comparison card.  `text` and
\* `sentence` are <<>> before the render; after it `text` is <<string>> and
\* `sentence` is <<what SentenceRow rendered>>.
ChangeComputed(key) ==
    /\ calls[key].change = <<>>
    /\ LET change == getPerfChange(calls[key].base, calls[key].current)
       IN  calls' = [calls EXCEPT
                        ![key].change = <<change>>,
                        ![key].text = <<formatChange(change, "{{value}}% higher",
                                                     "{{value}}% lower", "same")>>,
                        ![key].sentence = <<SentenceRow(change, "cost")>>]
    /\ lastToast' = "none"
    /\ UNCHANGED localStorage
    /\ UNCHANGED <<appState, rawData, dataset, results, providerSettings,
                   appSettings, cancelRunRef, abortController, pool, timers, micro>>

PerfNext == \E key \in DOMAIN calls : ChangeComputed(key)

SpecPerf == PerfInit /\ [][PerfNext]_vars

(* ----------------- AnalysisSummary.tsx: AnalysisSummary ----------------- *)
\* This specification follows the rows of a run as they are appended to
\* `results`; the analysis is what AnalysisSummary renders from them.
MaxResultRows == 3

\* a rows filter that would keep every row
validResultsAll(rows) == rows

\* results.filter(r => !r.error)
validResults(rows) == Filter(rows, {r \in Range(rows) : Falsy(r.error)})

\* `${row.provider}|${row.model}`
GroupKey(row) == row.provider \o "|" \o row.model

\* the reducer of validResults.reduce
RECURSIVE GroupRows(_, _)
GroupRows(rows, acc) ==
    IF rows = <<>> THEN acc
    ELSE LET row == Head(rows)
             key == GroupKey(row)
             known == IF key \in DOMAIN acc THEN acc
                      ELSE acc @@ (key :> [provider |-> row.provider,
                                           model |-> row.model,
                                           metrics |->
                                               [v \in Range(Variants) |->
                                                   [inputTokens |-> Num(0),
                                                    outputTokens |-> Num(0),
                                                    time |-> 0, cost |-> 0,
                                                    count |-> 0]]])
             group == known[key].metrics[row.variant]
         IN  GroupRows(Tail(rows),
                 [known EXCEPT ![key].metrics[row.variant] =
                     [inputTokens |-> Plus(group.inputTokens, row.prompt_tokens),
                      outputTokens |-> Plus(group.outputTokens, row.completion_tokens),
                      time |-> group.time + row.responseTime,
                      cost |-> group.cost + row.cost,
                      count |-> group.count + 1]])

groupedData(rows) == GroupRows(validResults(rows), <<>>)

\* avg(variant) of a group
avg(data, variant) ==
    LET m == data.metrics[variant]
        sum == Plus(m.inputTokens, m.outputTokens)
    IN  [tokens |-> IF m.count = 0 THEN Q(0, 1)
                    ELSE IF IsFinite(sum) THEN Q(sum.v, m.count)
                    ELSE [kind |-> sum.kind, n |-> 0, d |-> 1],
         time |-> IF m.count # 0 THEN Q(m.time, m.count) ELSE Q(0, 1),
         cost |-> IF m.count # 0 THEN Q(m.cost, m.count) ELSE Q(0, 1)]

\* Object.values(groupedData).map(...), by group key
analysis(rows) ==
    LET groups == groupedData(rows)
        Comparison(base, current) ==
            [tokens |-> getPerfChange(base.tokens, current.tokens),
             time |-> getPerfChange(base.time, current.time),
             cost |-> getPerfChange(base.cost, current.cost)]
    IN  [key \in DOMAIN groups |->
            LET data == groups[key]
            IN  [provider |-> data.provider,
                 model |-> data.model,
                 metrics |-> data.metrics,
                 tr_vs_en |-> Comparison(avg(data, "en"), avg(data, "tr")),
                 tr_nodia_vs_en |-> Comparison(avg(data, "en"), avg(data, "tr_nodia")),
                 tr_nodia_vs_tr |-> Comparison(avg(data, "tr"), avg(data, "tr_nodia"))]]

\* group.cost of every group and variant as the binary64 number the reducer
\* accumulates from 0 in the order of the rows; row.cost is the number
\* calculateCost returned for the row (llmProviders.ts line 187)
groupCost(rows) ==
    LET valid == validResults(rows)
        RECURSIVE Sum(_, _)
        Sum(group, i) ==
            IF i = 0 THEN [m |-> <<>>, e |-> 0]
            ELSE Float64("+", Sum(group, i - 1),
                         calculateCost64(group[i].model, group[i].prompt_tokens,
                                         group[i].completion_tokens))
    IN  [key \in {GroupKey(row) : row \in Range(valid)} |->
            [v \in Range(Variants) |->
                LET group == Filter(valid, {row \in Range(valid) :
                                               GroupKey(row) = key /\ row.variant = v})
                IN  Sum(group, Len(group))]]

\* the tasks of a run of two rows with openai and its two default models
AnalysisTasks ==
    ExpandTasks([i \in 1..2 |->
                    MappedRow([id |-> ToString(i), en |-> "abc", tr |-> "e~"], i,
                              RequiredHeaders)],
                <<"openai">>, DefaultProviderSettings)

\* what countTokens returns for a task: one of two usages, or an error
AnalysisOutcomes(task) ==
    {SuccessResult(task.model,
                   [prompt |-> Num(100), completion |-> Num(21), total |-> NoNumber],
                   80),
     SuccessResult(task.model,
                   [prompt |-> Num(121), completion |-> Num(21), total |-> NoNumber],
                   120),
     Timed(NotOkResult("openai", <<>>), 120)}

AnalysisInit ==
    /\ appState = "Running"
    /\ rawData = NoFile
    /\ dataset = <<>>
    /\ results = <<>>
    /\ lastToast = "none"
    /\ providerSettings = DefaultProviderSettings
    /\ appSettings = [concurrency |-> 2, delay |-> 100, runFirstN |-> 0,
                      regenerateTrNodia |-> FALSE]
    /\ cancelRunRef = FALSE
    /\ abortController = [gen |-> 0, aborted |-> FALSE]
    /\ pool = NoPool
    /\ calls = <<>>
    /\ timers = <<>>
    /\ micro = <<>>
    /\ localStorage = <<>>

\* runTask appends the row of a task, lines 177-191
RowArrives(i, out) ==
    /\ Len(results) < MaxResultRows
    /\ \A j \in 1..Len(results) : results[j].task # <<1, i>>
    /\ results' = AppendRow(results, ResultRowOf(AnalysisTasks[i], <<1, i>>, out))
    /\ lastToast' = "none"
    /\ UNCHANGED localStorage
    /\ UNCHANGED <<appState, rawData, dataset, providerSettings, appSettings,
                   cancelRunRef, abortController, pool, calls, timers, micro>>

AnalysisNext ==
    \E i \in 1..Len(AnalysisTasks) :
        \E out \in AnalysisOutcomes(AnalysisTasks[i]) : RowArrives(i, out)

SpecAnalysis == AnalysisInit /\ [][AnalysisNext]_vars

\* A run of three rows with openai and the model gpt-5 in which every call
\* succeeds: the prompts of the rows count 100, 102 and 106 tokens, every
\* completion 21.  The rows arrive in any order.
CostSumNext ==
    LET tasks == ExpandTasks([i \in 1..3 |->
                                 MappedRow([id |-> ToString(i), en |-> "abc",
                                            tr |-> "e~"], i, RequiredHeaders)],
                             <<"openai">>, Only("openai"))
        prompt == ("1" :> 100) @@ ("2" :> 102) @@ ("3" :> 106)
    IN  \E i \in 1..Len(tasks) :
            /\ Len(results) < MaxResultRows
            /\ \A j \in 1..Len(results) : results[j].task # <<1, i>>
            /\ results' = AppendRow(results,
                              ResultRowOf(tasks[i], <<1, i>>,
                                  SuccessResult(tasks[i].model,
                                      [prompt |-> Num(prompt[tasks[i].row.id]),
                                       completion |-> Num(21), total |-> NoNumber],
                                      80)))
            /\ lastToast' = "none"
            /\ UNCHANGED <<appState, rawData, dataset, providerSettings,
                           appSettings, cancelRunRef, abortController, pool, calls,
                           timers, micro, localStorage>>

SpecCostSum == AnalysisInit /\ [][CostSumNext]_vars

(* --------------- a run of six tasks that all succeed -------------------- *)
\* Two rows, one provider with a key and one model, concurrency 2, no pacing;
\* every request is answered with success.
ScenarioInit ==
    /\ appState = "ReadyToRun"
    /\ rawData \in {f \in ExpandFiles : Len(f.rows) = 2}
    /\ dataset = [i \in 1..Len(rawData.rows) |->
                     MappedRow(rawData.rows[i], i, RequiredHeaders)]
    /\ results = <<>>
    /\ lastToast = "none"
    /\ providerSettings \in {Only(p) : p \in {"openai", "gemini", "grok"}}
    /\ appSettings = [concurrency |-> 2, delay |-> 0, runFirstN |-> 0,
                      regenerateTrNodia |-> FALSE]
    /\ cancelRunRef = FALSE
    /\ abortController = [gen |-> 0, aborted |-> FALSE]
    /\ pool = NoPool
    /\ calls = <<>>
    /\ timers = <<>>
    /\ micro = <<>>
    /\ localStorage = <<>>

ScenarioNext ==
    \/ handleRun
    \/ \E key \in DOMAIN calls : FetchResponds(key, TRUE)
    \/ \E key \in DOMAIN calls : BodyArrives(key)
    \/ \E key \in DOMAIN calls : SdkSettles(key, TRUE)
    \/ RunTaskResumes
    \/ WrapperResumes
    \/ ThenRuns
    \/ PoolResumes

SpecScenario == ScenarioInit /\ [][ScenarioNext]_vars

(* ------------- runs over rows, providers, models and variants ---------- *)
\* openai and gemini enabled with a key: either two rows and the first model
\* of each, or one row, the two default models of openai and the first of
\* gemini; concurrency 2, no pacing; every request succeeds.
OrderInit ==
    /\ appState = "ReadyToRun"
    /\ rawData \in ExpandFiles
    /\ dataset = [i \in 1..Len(rawData.rows) |->
                     MappedRow(rawData.rows[i], i, RequiredHeaders)]
    /\ results = <<>>
    /\ lastToast = "none"
    /\ providerSettings =
           [q \in Range(ProviderIds) |->
               Setting(q \in {"openai", "gemini"},
                       IF q \in {"openai", "gemini"} THEN "sk-key" ELSE "",
                       IF q = "openai" /\ Len(rawData.rows) = 1
                       THEN DefaultModels[q]
                       ELSE <<Head(DefaultModels[q])>>)]
    /\ appSettings = [concurrency |-> 2, delay |-> 0, runFirstN |-> 0,
                      regenerateTrNodia |-> FALSE]
    /\ cancelRunRef = FALSE
    /\ abortController = [gen |-> 0, aborted |-> FALSE]
    /\ pool = NoPool
    /\ calls = <<>>
    /\ timers = <<>>
    /\ micro = <<>>
    /\ localStorage = <<>>

SpecOrder == OrderInit /\ [][ScenarioNext]_vars

(* ------------------------------ properties ------------------------------ *)
\* C1: in an asyncPool call the promises in `executing`, and the calls that
\* have not released their slot (in iteratorFn or in the pacing delay), never
\* outnumber the concurrency.
ConcurrencyBound ==
    pool.pc # "none" =>
        /\ Cardinality(pool.executing) <= pool.concurrency
        /\ Cardinality({k \in DOMAIN calls : k[1] = pool.run}) <= pool.concurrency

\* both slots taken, one of them by a call in its pacing delay, the pool waiting
FullPoolWaits ==
    /\ pool.pc = "race"
    /\ pool.concurrency = 2
    /\ Cardinality(pool.executing) = 2
    /\ \E k \in pool.executing : calls[k].st = "pacing"

\* C2: while the cancel flag is set, a step of the same asyncPool call
\* invokes iteratorFn for no further task, and a promise leaves `executing`
\* only because its own task has run to completion.
NoAdmissionOnceCancelled ==
    [][(cancelRunRef /\ pool'.run = pool.run) =>
           /\ pool'.invoked = pool.invoked
           /\ \A k \in pool.executing \ pool'.executing :
                  /\ micro # <<>>
                  /\ Head(micro).k = "then"
                  /\ Head(micro).key = k]_vars

\* the flag is set, tasks are left unadmitted, and a call admitted before is
\* still in flight while the pool awaits it
CancelHaltsAdmission ==
    /\ cancelRunRef
    /\ pool.pc = "all"
    /\ pool.next <= Len(pool.tasks)
    /\ \E k \in pool.executing : calls[k].st = "sdk"

\* C3: in a cancelled run asyncPool does not reject, and every row of the
\* result set belongs to a task this run admitted.
CancelledRunHoldsOnlyAdmitted ==
    (cancelRunRef /\ pool.pc # "none" /\ pool.run = abortController.gen) =>
        /\ pool.pc # "rejected"
        /\ \A i \in 1..Len(results) :
               /\ results[i].task[1] = pool.run
               /\ results[i].task[2] \in Range(pool.invoked)

\* C4: iteratorFn is invoked at most once per task, and no two rows of the
\* result set belong to the same task.
AtMostOnce ==
    /\ \A i, j \in 1..Len(pool.invoked) : pool.invoked[i] = pool.invoked[j] => i = j
    /\ \A i, j \in 1..Len(results) : results[i].task = results[j].task => i = j

\* a run that was not cancelled has ended with one row for each of its tasks
EveryTaskOneRow ==
    /\ pool.pc = "resolved"
    /\ ~cancelRunRef
    /\ Len(pool.tasks) = 3
    /\ Len(results) = 3

\* C5: when asyncPool has resolved, none of its promises is left in
\* `executing` and no call it admitted is still executing or pacing.
ResolvedMeansSettled ==
    pool.pc = "resolved" =>
        /\ pool.executing = {}
        /\ \A k \in DOMAIN calls : k[1] # pool.run
        /\ \A i \in 1..Len(timers) : timers[i][1] # pool.run

\* a paced pool resolved after a cancellation that found two calls in flight
ResolvedAfterCancel ==
    /\ pool.pc = "resolved"
    /\ cancelRunRef
    /\ pool.delayMs > 0
    /\ Len(pool.invoked) = 2
    /\ Len(pool.tasks) = 3

\* C6: asyncPool never rejects, whatever the outcome of a task.
RunNeverRejects == pool.pc # "rejected"

\* C7: in a run that is not cancelled, every admitted task that has completed
\* has a row in the result set.
CompletedTaskHasRow ==
    (~cancelRunRef /\ pool.pc # "none" /\ pool.run = abortController.gen) =>
        \A i \in 1..Len(pool.invoked) :
            \/ <<pool.run, pool.invoked[i]>> \in DOMAIN calls
            \/ \E j \in 1..Len(results) :
                   results[j].task = <<pool.run, pool.invoked[i]>>

\* C8: the result of an adapter call that was aborted through the signal of
\* the run carries the error 'Request cancelled' (and so leaves no row).
AbortedCallIsCancelled ==
    \A i \in 1..Len(micro) :
        (/\ micro[i].k = "adapter"
         /\ abortController.aborted
         /\ micro[i].key[1] = abortController.gen
         /\ PassesSignal(calls[micro[i].key].task.provider))
        => micro[i].out.error = "Request cancelled"

\* C9: once handleCancel has run, no adapter call of the run is left with a
\* network request in flight.
CancelAbortsEveryCall ==
    (cancelRunRef /\ abortController.aborted) =>
        \A k \in DOMAIN calls :
            k[1] = abortController.gen =>
                calls[k].st \notin {"fetch", "bodyOk", "bodyErr", "sdk"}

\* C10: a step either keeps every row of the result collection in place, or
\* empties it while starting a run or resetting the session.
ResultsAppendOnly ==
    [][\/ /\ Len(results) <= Len(results')
          /\ SubSeq(results', 1, Len(results)) = results
       \/ /\ results' = <<>>
          /\ appState' \in {"Running", "Initial"}]_vars

\* C11: while the configuration has an error (an enabled provider with a
\* blank key, no enabled provider, or no task to expand), no step makes an
\* adapter call and no step leaves the app running.
NoCallOnConfigError ==
    [][(\/ \E id \in DOMAIN providerSettings :
               providerSettings[id].enabled /\ Trim(providerSettings[id].apiKey) = ""
        \/ \A id \in DOMAIN providerSettings : ~providerSettings[id].enabled
        \/ \A id \in DOMAIN providerSettings :
               providerSettings[id].enabled =>
                   \A m \in 1..Len(providerSettings[id].models) :
                       Trim(providerSettings[id].models[m]) = "")
       => /\ DOMAIN calls' \subseteq DOMAIN calls
          /\ appState' # "Running"]_vars

\* a run attempt made after a completed run was refused for a missing key
RefusedAfterCompletedRun ==
    /\ lastToast = "missingKey"
    /\ appState = "ShowingResults"
    /\ results # <<>>

\* C12: a run attempt whose task list is empty (no enabled provider, or no
\* model among the enabled ones) is answered with the noProviders or the
\* noModels toast and leaves the app ready to run; the runComplete toast and
\* the step into ShowingResults come only from a run that had tasks.
NoEmptyRun ==
    [][/\ (/\ abortController'.gen # abortController.gen
           /\ \A id \in DOMAIN providerSettings :
                  providerSettings[id].enabled =>
                      \A m \in 1..Len(providerSettings[id].models) :
                          Trim(providerSettings[id].models[m]) = "")
          => /\ lastToast' \in {"noProviders", "noModels"}
             /\ appState' = "ReadyToRun"
       /\ (\/ lastToast' = "runComplete"
           \/ appState' = "ShowingResults" /\ appState # "ShowingResults")
          => pool'.tasks # <<>>]_vars

\* an attempt with an enabled provider that has no model was refused
RefusedForNoModels ==
    /\ lastToast = "noModels"
    /\ appState = "ReadyToRun"
    /\ enabledProviders(providerSettings) # <<>>

\* C13: the task list built for R rows (min(N, R) with a first-N limit N > 0)
\* and enabled providers with M_i non-blank models has 3 * (sum of M_i) * R
\* entries.
TaskCount ==
    pool # NoPool =>
        Len(pool.tasks) =
            3 * (LET M(id) == IF providerSettings[id].enabled
                              THEN Cardinality(
                                       {m \in 1..Len(providerSettings[id].models) :
                                            providerSettings[id].models[m]
                                                \notin {"", " "}})
                              ELSE 0
                 IN  M("openai") + M("gemini") + M("anthropic") + M("grok"))
              * (IF appSettings.runFirstN > 0 /\ appSettings.runFirstN < Len(dataset)
                 THEN appSettings.runFirstN
                 ELSE Len(dataset))

\* the first of two rows expanded for two models of openai and three of gemini
FirstRowOfTwoExpanded ==
    /\ appSettings.runFirstN = 1
    /\ Len(dataset) = 2
    /\ Len(providerSettings["gemini"].models) = 3
    /\ Len(pool.tasks) = 15

\* C14: every task of the list names an enabled provider and a model of that
\* provider's list that is neither empty nor made of blanks.
TasksOfEnabledNonBlank ==
    \A i \in 1..Len(pool.tasks) :
        /\ providerSettings[pool.tasks[i].provider].enabled
        /\ pool.tasks[i].model \in Range(providerSettings[pool.tasks[i].provider].models)
        /\ pool.tasks[i].model \notin {"", " "}

\* tasks built with openai switched off and a typed model added to gemini
TasksSkipDisabledCard ==
    /\ ~providerSettings["openai"].enabled
    /\ providerSettings["openai"].models # <<>>
    /\ \E i \in 1..Len(pool.tasks) :
           pool.tasks[i].provider = "gemini" /\ pool.tasks[i].model = "gpt-5"

\* C15: the pricing of a model identifier is that of the longest table key
\* that is a prefix of it, so that gpt-5, gpt-5-mini and gpt-5-nano are
\* priced by their own entries; with no such key the cost is zero.
LongestPrefixPricing ==
    \A k \in DOMAIN calls :
        calls[k].cost # <<>> =>
            LET c == calls[k]
                p == IF c.prompt_tokens.kind = "number" THEN c.prompt_tokens.v ELSE 0
                o == IF c.completion_tokens.kind = "number"
                     THEN c.completion_tokens.v ELSE 0
                matches == {i \in 1..Len(PRICING_DATA) :
                               /\ Len(PRICING_DATA[i].key) <= Len(c.model)
                               /\ SubSeq(c.model, 1, Len(PRICING_DATA[i].key))
                                      = PRICING_DATA[i].key}
            IN  /\ matches = {} => c.cost = <<0>>
                /\ \A i \in matches :
                       (\A j \in matches :
                            Len(PRICING_DATA[j].key) <= Len(PRICING_DATA[i].key))
                       => c.cost = <<p * PRICING_DATA[i].input
                                     + o * PRICING_DATA[i].output>>
                /\ c.model = "gpt-5" => c.cost = <<p * 125 + o * 1000>>
                /\ c.model = "gpt-5-mini" => c.cost = <<p * 25 + o * 200>>
                /\ c.model = "gpt-5-nano" => c.cost = <<p * 5 + o * 20>>

\* a model of the grok-4 family priced by its own, longer key
FastGrokPricedByOwnKey ==
    \E k \in DOMAIN calls :
        /\ calls[k].model = "grok-4-fast-non-reasoning"
        /\ calls[k].prompt_tokens = Num(100000)
        /\ calls[k].completion_tokens = Num(1000)
        /\ calls[k].cost = <<100000 * 20 + 1000 * 50>>

\* C16: the cost is promptTokens / 10^6 * inputRate + completionTokens / 10^6
\* * outputRate with a missing or non-finite count taken as zero: it is a
\* finite number, and zero when no pricing is resolved or both counts are
\* invalid.
CostFiniteAndSanitized ==
    \A k \in DOMAIN calls :
        calls[k].cost # <<>> =>
            LET c == calls[k]
                valid(x) == x.kind = "number"
                p == IF valid(c.prompt_tokens) THEN c.prompt_tokens.v ELSE 0
                o == IF valid(c.completion_tokens) THEN c.completion_tokens.v ELSE 0
                resolved == {e \in Range(PRICING_DATA) :
                                e.key = FindPrefix(sortedKeys, c.model)}
            IN  /\ c.cost[1] \in Nat
                /\ \A e \in resolved : c.cost[1] = p * e.input + o * e.output
                /\ resolved = {} => c.cost[1] = 0
                /\ ~valid(c.prompt_tokens) /\ ~valid(c.completion_tokens)
                       => c.cost[1] = 0

\* a cost computed from a valid completion count beside a NaN prompt count
CostOfOneValidCount ==
    \E k \in DOMAIN calls :
        /\ calls[k].model = "gpt-5-pro"
        /\ calls[k].prompt_tokens = NaN
        /\ calls[k].completion_tokens = Num(1000)
        /\ calls[k].cost = <<1000 * 1000>>

\* C17 as stated: every adapter called with a blank API key returns at once
\* the missing-key error with responseTime 0 and starts no request.
BlankKeyRefusedByEveryAdapter ==
    \A k \in DOMAIN calls :
        calls[k].apiKey \in {"", " "} =>
            /\ ~calls[k].network
            /\ calls[k].out = <<[prompt_tokens |-> Num(0),
                                 completion_tokens |-> Num(0),
                                 total_tokens |-> Num(0), mode |-> "error",
                                 cost |-> 0, responseTime |-> 0,
                                 error |-> "API key is missing."]>>

\* C17: openai, gemini and grok called with the empty string as API key
\* return at once the missing-key error with responseTime 0 and start no
\* request; with any other key, a whitespace-only one included, they start
\* the request.  The anthropic stub returns the "not implemented" error with
\* responseTime 0 whatever the key, and starts no request.
EmptyKeyRefusedStubNotImplemented ==
    \A k \in DOMAIN calls :
        LET refused(error) ==
                /\ ~calls[k].network
                /\ calls[k].st = "returned"
                /\ calls[k].out = <<[prompt_tokens |-> Num(0),
                                     completion_tokens |-> Num(0),
                                     total_tokens |-> Num(0), mode |-> "error",
                                     cost |-> 0, responseTime |-> 0,
                                     error |-> error]>>
        IN  IF calls[k].provider = "anthropic"
            THEN refused("This provider is not implemented yet.")
            ELSE IF calls[k].apiKey = ""
            THEN refused("API key is missing.")
            ELSE calls[k].network

\* gemini called with the empty key has returned the missing-key error
GeminiRefusedEmptyKey ==
    \E k \in DOMAIN calls :
        /\ calls[k].provider = "gemini"
        /\ calls[k].apiKey = ""
        /\ calls[k].st = "returned"
        /\ calls[k].out # <<>>
        /\ calls[k].out[1].error = "API key is missing."

\* C18: a result returned by an adapter has mode 'error' exactly when its
\* error field is set, and an error result has zero prompt, completion and
\* total tokens and zero cost.
ErrorModeIffErrorSet ==
    \A k \in DOMAIN calls :
        \A i \in 1..Len(calls[k].out) :
            LET out == calls[k].out[i]
            IN  /\ out.mode = "error" <=> out.error \notin {Undefined, ""}
                /\ out.mode = "error" =>
                       /\ out.prompt_tokens = Num(0)
                       /\ out.completion_tokens = Num(0)
                       /\ out.total_tokens = Num(0)
                       /\ out.cost = 0

\* an error result returned after a request that took time
TimedErrorResult ==
    \E k \in DOMAIN calls :
        /\ calls[k].network
        /\ calls[k].out # <<>>
        /\ calls[k].out[1].mode = "error"
        /\ calls[k].out[1].responseTime > 0

ErrorRowsLeftOut ==
    LET real == Filter(results, {r \in Range(results) : r.mode # "error"})
    IN  /\ analysis(results) = analysis(real)
        /\ \A key \in DOMAIN analysis(results) :
               \A v \in Range(Variants) :
                   LET rows == {i \in 1..Len(results) :
                                   /\ results[i].mode = "real"
                                   /\ results[i].provider \o "|" \o results[i].model = key
                                   /\ results[i].variant = v}
                       m == analysis(results)[key].metrics[v]
                   IN  /\ m.count = Cardinality(rows)
                       /\ m.count = 1 =>
                              \A i \in rows :
                                  /\ m.time = results[i].responseTime
                                  /\ m.cost = results[i].cost
                                  /\ m.inputTokens = results[i].prompt_tokens
        /\ \A i \in 1..Len(results) :
               results[i].provider \o "|" \o results[i].model
                   \in DOMAIN analysis(results)
               => \E j \in 1..Len(results) :
                      /\ results[j].mode = "real"
                      /\ results[j].model = results[i].model

\* an error row beside the en and tr rows of a model whose change is computed
ErrorRowBesideComparedRows ==
    /\ \E i \in 1..Len(results) : results[i].mode = "error"
    /\ \E key \in DOMAIN analysis(results) :
           /\ analysis(results)[key].tr_vs_en.tokens.kind = "number"
           /\ analysis(results)[key].tr_vs_en.tokens.n > 0

\* C21: in a group where a variant has no successful call, the means of that
\* variant and every relative change that has it as base or as current are
\* undefined (null), never a number.
ZeroCountVariantUndefined ==
    \A key \in DOMAIN analysis(results) :
        LET a == analysis(results)[key]
            data == groupedData(results)[key]
            empty(v) == a.metrics[v].count = 0
            undefined(c) ==
                c.tokens.kind = "null" /\ c.time.kind = "null" /\ c.cost.kind = "null"
        IN  /\ \A v \in Range(Variants) :
                   empty(v) => /\ avg(data, v).tokens.kind # "number"
                               /\ avg(data, v).time.kind # "number"
                               /\ avg(data, v).cost.kind # "number"
            /\ empty("en") \/ empty("tr") => undefined(a.tr_vs_en)
            /\ empty("en") \/ empty("tr_nodia") => undefined(a.tr_nodia_vs_en)
            /\ empty("tr") \/ empty("tr_nodia") => undefined(a.tr_nodia_vs_tr)

\* C22: a relative change that is undefined is shown as "not comparable":
\* its text is not the "same" text, and its sentence is rendered.
UndefinedChangeShownApart ==
    \A k \in DOMAIN calls :
        (calls[k].change # <<>> /\ calls[k].change[1].kind = "null") =>
            /\ calls[k].text # <<"same">>
            /\ calls[k].sentence # <<<<>>>>

\* C23: with 2 rows, 1 provider, 1 model, concurrency 2 and no pacing, and
\* every call succeeding with the same token counts, a run never holds more
\* than 6 rows, all of mode 'real' and of one cost, and once nothing of it is
\* pending it has ended in ShowingResults with exactly 6 rows.
SixRowsInEveryInterleaving ==
    /\ Len(results) <= 6
    /\ \A i, j \in 1..Len(results) :
           results[i].mode = "real" /\ results[i].cost = results[j].cost
    /\ (pool.run > 0 /\ calls = <<>> /\ micro = <<>> /\ timers = <<>>)
           => appState = "ShowingResults" /\ Len(results) = 6
    /\ appState = "ShowingResults" => Len(results) = 6

\* a run ended with six priced rows, the last task's row not being the last
SixRowsOutOfOrder ==
    /\ appState = "ShowingResults"
    /\ Len(results) = 6
    /\ results[1].cost > 0
    /\ results[6].task[2] # 6

\* C24: in every network adapter, a non-success response whose body is no
\* JSON is reported with the HTTP status line (status code and status text).
StatusLineWhenBodyUnparsable ==
    \A key \in DOMAIN calls :
        (/\ calls[key].st = "returned"
         /\ calls[key].notOk
         /\ calls[key].errorData = <<>>)
        => Includes(calls[key].out[1].error, StatusLine)

\* C25: an error that the API reports through a non-success status is never
\* reported as 'Network/CORS error.', whatever its message text, and a
\* transport failure is.
ApiErrorNeverNetworkError ==
    \A key \in DOMAIN calls :
        calls[key].st = "returned" /\ calls[key].network =>
            IF calls[key].notOk
            THEN calls[key].out[1].error # "Network/CORS error."
            ELSE (calls[key].out[1].mode = "error"
                  /\ calls[key].provider # "gemini"
                  /\ calls[key].out[1].error # "Request cancelled")
                 => calls[key].out[1].error = "Network/CORS error."

\* C26: the registry holds an adapter for every provider id of the settings,
\* the stub included: a run started with the stub provider enabled (with a
\* model, on a dataset with rows) has tasks of the stub, and every row of the
\* stub is a well-formed result of mode 'error' with zero tokens, zero cost
\* and the fixed message.
StubNeverDropped ==
    [][/\ (/\ abortController'.gen # abortController.gen
           /\ providerSettings["anthropic"].enabled
           /\ providerSettings["anthropic"].models # <<>>
           /\ dataset # <<>>)
          => /\ pool'.run = abortController'.gen
             /\ \E i \in 1..Len(pool'.tasks) : pool'.tasks[i].provider = "anthropic"
       /\ \A i \in 1..Len(results') :
              results'[i].provider = "Anthropic Claude"
              => /\ results'[i].mode = "error"
                 /\ results'[i].error = "This provider is not implemented yet."
                 /\ results'[i].prompt_tokens = Num(0)
                 /\ results'[i].completion_tokens = Num(0)
                 /\ results'[i].total_tokens = Num(0)
                 /\ results'[i].cost = 0]_vars

StubRowReported ==
    /\ providerSettings["anthropic"].enabled
    /\ \E i \in 1..Len(results) :
           results[i].provider = "Anthropic Claude" /\ results[i].mode = "error"

\* C27: after any sequence of key edits and "Remember key" toggles, the key
\* of a card is in localStorage only while "Remember key" is checked, and
\* the stored value is then the current API key.
StoredOnlyWhileRemembered ==
    \A id \in DOMAIN localStorage :
        /\ providerSettings[id].remember
        /\ localStorage[id] = providerSettings[id].apiKey

\* C28: the cancel flag is observed before a result is reported: a step
\* taken while the flag is set appends no row to the result collection.
NoRowOnceCancelled ==
    [][cancelRunRef => Len(results') <= Len(results)]_vars

\* C29: in the step in which the wrapper of a task takes up the settled
\* execution of iteratorFn, the slot is held by a pacing timeout if and only
\* if delayMs > 0 and the cancel flag is not set at that moment; otherwise
\* the release of the slot is queued at once.
SlotHeldIffPaced ==
    [][(micro # <<>> /\ Head(micro).k \in {"iife", "threw"}) =>
          LET key == Head(micro).key
              held == key \in Range(timers')
              freed == \E i \in 1..Len(micro') :
                           micro'[i].k = "then" /\ micro'[i].key = key
          IN  IF calls[key].delayMs > 0 /\ ~cancelRunRef
              THEN held /\ ~freed
              ELSE freed /\ ~held]_vars

\* C30: the result of a task is in the accumulator of asyncPool as soon as
\* its execution has settled, also while the pacing delay of its slot runs.
AccumulatedOnSettle ==
    \A key \in DOMAIN calls :
        (calls[key].st = "pacing" /\ key[1] = pool.run)
        => \E i \in 1..Len(pool.results) : pool.results[i] = calls[key].res

\* C31: the tasks of a run are in row-major order, then provider, then
\* model, then variant (en, tr, tr_nodia), and asyncPool invokes iteratorFn
\* on them in exactly that order, whatever the order of completion.
TasksAdmittedInInputOrder ==
    LET Pos(seq, x) == CHOOSE i \in 1..Len(seq) : seq[i] = x
        Rank(task) ==
            ((Pos(dataset, task.row) * 4 + Pos(ProviderIds, task.provider)) * 2
             + Pos(providerSettings[task.provider].models, task.model)) * 3
            + Pos(Variants, task.variant)
    IN  /\ \A i, j \in 1..Len(pool.tasks) :
               i < j => Rank(pool.tasks[i]) < Rank(pool.tasks[j])
        /\ pool.invoked = [i \in 1..Len(pool.invoked) |-> i]
        /\ \A key \in DOMAIN calls :
               key[1] = pool.run => calls[key].task = pool.tasks[key[2]]

RowsOutOfInputOrder ==
    /\ appState = "ShowingResults"
    /\ Len(pool.invoked) = 12
    /\ \E i, j \in 1..Len(results) :
           i < j /\ results[i].task[2] > results[j].task[2]

\* C32: for a non-success response with a parsed JSON body the error
\* message is the nested error.message (with error.type and error.code
\* appended when present), else the top-level message, else the
\* serialization of the whole payload.
ErrorMessageInOrder ==
    \A key \in DOMAIN calls :
        (/\ calls[key].st = "returned"
         /\ calls[key].notOk
         /\ calls[key].errorData # <<>>
         /\ calls[key].out[1].error # "Network/CORS error.")
        => LET data == calls[key].errorData[1]
               nested == IF "error" \in DOMAIN data /\ "message" \in DOMAIN data.error
                         THEN data.error.message ELSE Undefined
               top == IF "message" \in DOMAIN data THEN data.message ELSE Undefined
               expected ==
                   IF nested # Undefined
                   THEN nested
                        \o (IF "type" \in DOMAIN data.error /\ data.error.type # Undefined
                            THEN " (Type: " \o data.error.type \o ")" ELSE "")
                        \o (IF "code" \in DOMAIN data.error /\ data.error.code # Undefined
                            THEN " (Code: " \o data.error.code \o ")" ELSE "")
                   ELSE IF top # Undefined THEN top
                   ELSE JSONStringify(data)
           IN  calls[key].out[1].error
                   = (IF calls[key].provider = "openai" THEN "OpenAI API Error: "
                      ELSE "Grok API Error: ") \o expected

\* C33: a run attempt that is refused for a configuration error (a missing
\* key, no provider enabled, no model) leaves the result collection as the
\* previous run left it.
RefusedRunKeepsResults ==
    [][lastToast' \in {"missingKey", "noProviders", "noModels"}
       => results' = results]_vars

\* C34: with concurrency >= 1 and every adapter call settling eventually,
\* every started run eventually leaves the Running state, with or without
\* cancellation and for any pacing delay (the asyncPool call has then
\* resolved or, for a row without text, rejected).
RunLeavesRunning == (appState = "Running") ~> (appState # "Running")

RunEndedAfterPacing ==
    /\ appState = "ShowingResults"
    /\ pool.delayMs > 0
    /\ pool.pc = "resolved"
    /\ results # <<>>

\* C35: in the step in which asyncPool resolves the app goes to
\* ShowingResults with the completion notice if the cancel flag is not set,
\* and to ReadyToRun with the cancellation notice if it is; the app is never
\* in ShowingResults with the flag set.
EndOfRunFollowsFlag ==
    [][/\ (pool.pc # "resolved" /\ pool'.pc = "resolved") =>
              IF cancelRunRef
              THEN appState' = "ReadyToRun" /\ lastToast' = "runCancelled"
              ELSE appState' = "ShowingResults" /\ lastToast' = "runComplete"
       /\ appState' = "ShowingResults" => ~cancelRunRef']_vars

CancelledRunEnded ==
    /\ pool.pc = "resolved"
    /\ cancelRunRef
    /\ appState = "ReadyToRun"
    /\ lastToast = "runCancelled"
    /\ results # <<>>

\* C36: a row is appended to the result collection only while the app is
\* in the Running state of the run that created its task.
RowsOnlyWhileOwnRunRuns ==
    [][Len(results') > Len(results)
       => /\ appState = "Running"
          /\ results'[Len(results')].task[1] = abortController.gen]_vars

\* C37: the step that starts a run leaves the cancel flag cleared and a new
\* abort signal that is not aborted, which the calls it starts listen to; the
\* flag is set and a signal aborted only by a Cancel during the run at hand.
RunStartsUncancelled ==
    [][/\ abortController'.gen # abortController.gen
          => /\ ~cancelRunRef'
             /\ ~abortController'.aborted
             /\ abortController'.gen = abortController.gen + 1
             /\ \A key \in DOMAIN calls' \ DOMAIN calls :
                    calls'[key].sig = abortController'.gen
       /\ (cancelRunRef' /\ ~cancelRunRef)
          => /\ appState = "Running"
             /\ pool.run = abortController.gen
             /\ abortController'.gen = abortController.gen
       /\ abortController'.aborted => cancelRunRef']_vars

SecondRunAdmitsAfterCancelledFirst ==
    /\ abortController.gen = 2
    /\ appState = "Running"
    /\ ~cancelRunRef
    /\ Len(pool.invoked) >= 2
    /\ \E key \in DOMAIN calls :
           key[1] = 2 /\ calls[key].sig = 2 /\ calls[key].st = "fetch"

\* C38: the pre-run cost estimate prices every model by the entry of the
\* longest table key that is a prefix of the model, the entry calculateCost
\* and getPricingForModel resolve: 50 prompt and 2 completion tokens for each
\* of the three variants of every row.
EstimateUsesLongestPrefix ==
    \A k \in DOMAIN calls :
        calls[k].estimate # <<>> =>
            LET model == calls[k].model
                matches == {i \in 1..Len(PRICING_DATA) :
                               /\ Len(PRICING_DATA[i].key) <= Len(model)
                               /\ SubSeq(model, 1, Len(PRICING_DATA[i].key))
                                      = PRICING_DATA[i].key}
                longest == CHOOSE i \in matches :
                               \A j \in matches :
                                   Len(PRICING_DATA[j].key) <= Len(PRICING_DATA[i].key)
                total == IF matches = {} THEN 0
                         ELSE (50 * PRICING_DATA[longest].input
                               + 2 * PRICING_DATA[longest].output) * EstimateRows * 3
                rounded == (total + 5000) \div 10000
                digits == ToString(rounded % 10000)
            IN  calls[k].estimate =
                    <<IF total = 0 THEN "$0.00"
                      ELSE "~$" \o ToString(rounded \div 10000) \o "."
                           \o SubSeq("000", 1, 4 - Len(digits)) \o digits>>

====
